---- MODULE Spec2Model ----
(***************************************************************************)
(* Model of the search fallback and answer pipeline of the Memvid agent    *)
(* memory tool server: MemoryManager.search (tiered fallback over the      *)
(* storage engine's find), MemoryManager.extractKeywords, and the tool     *)
(* handlers handleSearch / handleAsk of MemvidMcpServer.                   *)
(*                                                                         *)
(* Strings the code inspects character by character (queries, keywords)    *)
(* are sequences of one-character strings.  The storage engine and the     *)
(* language-model provider are external: each call to them returns a       *)
(* nondeterministically chosen outcome.                                    *)
(***************************************************************************)
EXTENDS Integers, Sequences, FiniteSets, TLC

VARIABLES
    pc,             \* position of the tool invocation in flight
    tool,           \* "none" | "search" | "ask": handler that is running
    query,          \* query / question argument (sequence of characters)
    opts,           \* SearchOptions passed to MemoryManager.search
    keywords,       \* local `keywords` of search (extraction order)
    kwIndex,        \* position of the for-of loop over keywords
    calls,          \* engine find calls issued by the search, in order
    result,         \* local `result.hits` of search: last engine response
    searchResult,   \* SearchResult returned by search (returned = FALSE before)
    searchError,    \* TRUE when search raised SearchError
    statsCalls,     \* engine stats() calls made by the invocation
    frameCount,     \* stats.frameCount seen by handleAsk
    llmConfigured,  \* LlmService.isConfigured()
    llmCalls,       \* generateAnswer provider calls: hits handed to the provider
    rewriteCalls,   \* invocations of LlmService.rewriteQuery
    response,       \* McpToolResponse of the invocation
    llmOutcome,     \* how generateAnswer settled: "none" | "answer" | "null" | "throw"
    initialized,    \* MemvidMcpServer.initialized (memory opened by start())
    storeFrames,    \* entries the store held when stats() was called
    engineFailure,  \* engine operation of the invocation that raised, or "none"
    provider,       \* LlmConfig.provider and, for copilot, whether a bridge port is set
    providerCalls,  \* outbound provider requests (fetch) made
    failedKeywords, \* failedKeywords argument of rewriteQuery
    llmOutput,      \* text the provider answered with, and what it was written from
    rewriteResult,  \* what rewriteQuery gave back to its caller
    providerResponse, \* what the provider did with the request of generateAnswer
    generateResult, \* what generateAnswer gave back to its caller
    settingsConfigured, \* whether the provider settings in effect name a usable provider
    invocations,    \* tools/call invocations in flight or settled, in arrival order, with their locals
    stdout,         \* messages written to stdout, in order
    memory,         \* MemoryManager.memory: the engine handle held, NoHandle for null
    isInitialized,  \* MemoryManager.isInitialized
    memoryPath,     \* MemoryManager.memoryPath
    files,          \* the memory files that exist on disk
    opened,         \* every engine handle sdk.use / sdk.create has returned
    sealed,         \* the handles seal() was called on
    managerCalls,   \* the MemoryManager calls started, each with the await it is suspended at
    lastOp,         \* the MemoryManager method that completed last and how
    buffer,         \* MemvidMcpServer.buffer: input read and not yet split into lines
    inputRest,      \* the part of the stdin stream that has not arrived
    arrived,        \* the part of the stdin stream that has arrived
    processed,      \* the lines handed to processMessage, in order
    received,       \* the JSON-RPC messages processMessage has handled, in order
    exited          \* TRUE once shutdown has called process.exit

vars == <<pc, tool, query, opts, keywords, kwIndex, calls, result, searchResult,
          searchError, statsCalls, frameCount, llmConfigured, llmCalls,
          rewriteCalls, response, llmOutcome, initialized, storeFrames, engineFailure,
          provider, providerCalls, failedKeywords, llmOutput, rewriteResult,
          providerResponse,
          generateResult,
          settingsConfigured,
          invocations,
          stdout,
          memory,
          isInitialized,
          memoryPath,
          files,
          opened,
          sealed,
          managerCalls,
          lastOp,
          buffer,
          inputRest,
          arrived,
          processed,
          received,
          exited>>

\* state of LlmService.rewriteQuery, untouched by the tool handlers
rewriteVars == <<provider, providerCalls, failedKeywords, llmOutput, rewriteResult>>

\* everything the handlers of a tools/call work on, but their position
handlerVars ==
    <<tool, query, opts, keywords, kwIndex, calls, result, searchResult, searchError,
      statsCalls, frameCount, llmConfigured, llmCalls, rewriteCalls, response, llmOutcome,
      initialized, storeFrames, engineFailure>>

\* state of LlmService.generateAnswer
generateVars == <<providerResponse, generateResult>>

\* state of the parts of the program that the handlers of one tools/call and
\* rewriteQuery leave alone
managerVars == <<memory, isInitialized, memoryPath, files, opened, sealed, managerCalls, lastOp>>
inputVars == <<buffer, inputRest, arrived, processed>>
rpcVars == <<received, exited>>
laterVars == <<providerResponse, generateResult, settingsConfigured, invocations, stdout, memory, isInitialized, memoryPath, files, opened, sealed, managerCalls, lastOp, buffer, inputRest, arrived, processed, received, exited>>

----------------------------------------------------------------------------
(* Bounds of the model *)

MaxHits == 2        \* most hits the engine holds for one query
MaxLimit == 1       \* largest caller-specified limit explored
MaxFrames == 1      \* largest frame_count reported by stats()

(* Program constants *)

DefaultLimit == 10
DefaultContextLimit == 5

Min(a, b) == IF a < b THEN a ELSE b

----------------------------------------------------------------------------
(* MemoryManager.extractKeywords *)

stopwords == {
    <<"d","e","r">>, <<"d","i","e">>, <<"d","a","s">>, <<"d","e","n">>, <<"d","e","m">>,
    <<"d","e","s">>, <<"e","i","n">>, <<"e","i","n","e">>, <<"e","i","n","e","r">>,
    <<"e","i","n","e","m">>, <<"e","i","n","e","n">>, <<"u","n","d">>, <<"o","d","e","r">>,
    <<"a","b","e","r">>, <<"w","e","n","n">>, <<"w","e","i","l">>, <<"d","a","s","s">>,
    <<"a","l","s">>, <<"a","u","c","h">>, <<"n","o","c","h">>, <<"s","c","h","o","n">>,
    <<"i","s","t">>, <<"s","i","n","d">>, <<"w","a","r">>, <<"w","a","r","e","n">>,
    <<"w","i","r","d">>, <<"w","e","r","d","e","n">>, <<"h","a","t">>, <<"h","a","b","e","n">>,
    <<"h","a","t","t","e">>, <<"h","a","t","t","e","n">>, <<"k","a","n","n">>,
    <<"k","ö","n","n","e","n">>, <<"k","o","n","n","t","e">>, <<"k","o","n","n","t","e","n">>,
    <<"m","u","s","s">>, <<"m","ü","s","s","e","n">>, <<"s","o","l","l">>,
    <<"s","o","l","l","e","n">>, <<"w","a","s">>, <<"w","e","r">>, <<"w","i","e">>, <<"w","o">>,
    <<"w","a","n","n">>, <<"w","a","r","u","m">>, <<"w","e","l","c","h","e">>,
    <<"w","e","l","c","h","e","r">>, <<"w","e","l","c","h","e","s">>, <<"i","c","h">>, <<"d","u">>,
    <<"e","r">>, <<"s","i","e">>, <<"e","s">>, <<"w","i","r">>, <<"i","h","r">>,
    <<"m","e","i","n">>, <<"d","e","i","n">>, <<"s","e","i","n">>, <<"n","i","c","h","t">>,
    <<"k","e","i","n">>, <<"k","e","i","n","e">>, <<"k","e","i","n","e","r">>, <<"n","u","r">>,
    <<"s","e","h","r">>, <<"m","e","h","r">>, <<"v","i","e","l">>, <<"a","l","l","e">>,
    <<"a","l","l","e","s">>, <<"f","ü","r">>, <<"m","i","t">>, <<"b","e","i">>, <<"v","o","n">>,
    <<"z","u">>, <<"n","a","c","h">>, <<"a","u","s">>, <<"ü","b","e","r">>,
    <<"u","n","t","e","r">>, <<"z","w","i","s","c","h","e","n">>, <<"d","u","r","c","h">>,
    <<"g","e","g","e","n">>, <<"o","h","n","e">>, <<"u","m">>, <<"a","n">>, <<"a","u","f">>,
    <<"i","n">>, <<"v","o","r">>, <<"h","i","n","t","e","r">>, <<"n","e","b","e","n">>,
    <<"t","h","e">>, <<"a">>, <<"i","s">>, <<"a","r","e">>, <<"w","e","r","e">>, <<"b","e">>,
    <<"b","e","e","n">>, <<"b","e","i","n","g">>, <<"h","a","v","e">>, <<"h","a","s">>,
    <<"h","a","d">>, <<"d","o">>, <<"d","o","e","s">>, <<"d","i","d">>, <<"w","i","l","l">>,
    <<"w","o","u","l","d">>, <<"c","o","u","l","d">>, <<"s","h","o","u","l","d">>,
    <<"w","h","a","t">>, <<"w","h","i","c","h">>, <<"w","h","o">>, <<"w","h","o","m">>,
    <<"t","h","i","s">>, <<"t","h","a","t">>, <<"t","h","e","s","e">>, <<"t","h","o","s","e">>,
    <<"i">>, <<"y","o","u">>, <<"h","e">>, <<"s","h","e">>, <<"i","t">>, <<"w","e">>,
    <<"t","h","e","y">>, <<"m","y">>, <<"y","o","u","r">>, <<"h","i","s">>, <<"h","e","r">>,
    <<"i","t","s">>, <<"a","n","d">>, <<"o","r">>, <<"b","u","t">>, <<"i","f">>,
    <<"b","e","c","a","u","s","e">>, <<"a","s">>, <<"w","h","i","l","e">>, <<"o","f">>,
    <<"a","t">>, <<"b","y">>, <<"f","o","r">>, <<"w","i","t","h">>, <<"a","b","o","u","t">>,
    <<"a","g","a","i","n","s","t">>, <<"b","e","t","w","e","e","n">>, <<"i","n","t","o">>,
    <<"t","h","r","o","u","g","h">>, <<"d","u","r","i","n","g">>, <<"b","e","f","o","r","e">>,
    <<"a","f","t","e","r">>, <<"a","b","o","v","e">>, <<"b","e","l","o","w">>, <<"t","o">>,
    <<"f","r","o","m">>, <<"u","p">>, <<"d","o","w","n">>, <<"o","u","t">>, <<"o","n">>,
    <<"o","f","f">>, <<"c","a","n">>, <<"a","l","l">>, <<"a","n","y">>, <<"b","o","t","h">>,
    <<"e","a","c","h">>, <<"f","e","w">>, <<"m","o","r","e">>, <<"m","o","s","t">>,
    <<"o","t","h","e","r">>, <<"s","o","m","e">>, <<"s","u","c","h">>, <<"n","o">>,
    <<"n","o","r">>, <<"n","o","t">>, <<"o","n","l","y">>, <<"o","w","n">>, <<"s","a","m","e">>,
    <<"s","o">>, <<"t","h","a","n">>, <<"t","o","o">>, <<"v","e","r","y">>
}

\* Alphabet of the model's queries
LowerCase == {"a", "b", "c", "d", "e", "h", "i", "j", "n", "o", "p", "s", "t"}
UpperCase == {"A", "D", "I", "J", "N", "O", "P", "S"}
Digits == {"1"}

\* String.prototype.toLowerCase, character by character
lowerChar(c) ==
    CASE c = "A" -> "a"
      [] c = "D" -> "d"
      [] c = "I" -> "i"
      [] c = "J" -> "j"
      [] c = "N" -> "n"
      [] c = "O" -> "o"
      [] c = "P" -> "p"
      [] c = "S" -> "s"
      [] OTHER -> c

toLowerCase(s) == [i \in 1..Len(s) |-> lowerChar(s[i])]

\* \p{L}\p{N}: letters and digits of the model's alphabet
isLetterOrDigit(c) ==
    c \in LowerCase \cup UpperCase \cup Digits

\* \s
isSpace(c) == c \in {" ", "\t", "\n"}

\* .replace(/[^\p{L}\p{N}\s]/gu, ' ')
replaceNonWord(s) ==
    [i \in 1..Len(s) |-> IF isLetterOrDigit(s[i]) \/ isSpace(s[i]) THEN s[i] ELSE " "]

\* .split(/\s+/): every maximal run of whitespace is one separator, so a
\* leading or trailing run leaves an empty first or last piece
RECURSIVE splitFrom(_, _, _, _)
splitFrom(s, i, cur, acc) ==
    IF i > Len(s) THEN Append(acc, cur)
    ELSE IF isSpace(s[i])
         THEN IF i > 1 /\ isSpace(s[i - 1])
              THEN splitFrom(s, i + 1, cur, acc)
              ELSE splitFrom(s, i + 1, <<>>, Append(acc, cur))
         ELSE splitFrom(s, i + 1, Append(cur, s[i]), acc)

splitWhitespace(s) == splitFrom(s, 1, <<>>, <<>>)

\* bug variant: the distinct words come out newest first
RECURSIVE dedupeNewestFirst(_, _)
dedupeNewestFirst(ws, acc) ==
    IF ws = <<>> THEN acc
    ELSE IF \E j \in 1..Len(acc) : acc[j] = Head(ws)
         THEN dedupeNewestFirst(Tail(ws), acc)
         ELSE dedupeNewestFirst(Tail(ws), <<Head(ws)>> \o acc)

\* [...new Set(words)]: first occurrences, in order
RECURSIVE dedupe(_, _)
dedupe(ws, acc) ==
    IF ws = <<>> THEN acc
    ELSE IF \E j \in 1..Len(acc) : acc[j] = Head(ws)
         THEN dedupe(Tail(ws), acc)
         ELSE dedupe(Tail(ws), Append(acc, Head(ws)))

\* bug variant: words of two characters are kept
keepWordOfTwo(word) == Len(word) >= 2 /\ word \notin stopwords

\* word.length > 2 && !stopwords.has(word)
keepWord(word) == Len(word) > 2 /\ word \notin stopwords

extractKeywords(q) ==
    dedupe(SelectSeq(splitWhitespace(replaceNonWord(toLowerCase(q))), keepWord), <<>>)

\* keywords.join(' OR ')
RECURSIVE joinOr(_)
joinOr(ks) ==
    IF ks = <<>> THEN <<>>
    ELSE IF Len(ks) = 1 THEN ks[1]
         ELSE ks[1] \o <<" ", "O", "R", " ">> \o joinOr(Tail(ks))

----------------------------------------------------------------------------
(* LlmService.parseSearchTerms *)

\* String.prototype.trim
RECURSIVE trimStart(_)
trimStart(s) == IF s # <<>> /\ isSpace(Head(s)) THEN trimStart(Tail(s)) ELSE s

RECURSIVE trimEnd(_)
trimEnd(s) ==
    IF s # <<>> /\ isSpace(s[Len(s)]) THEN trimEnd(SubSeq(s, 1, Len(s) - 1)) ELSE s

trim(s) == trimEnd(trimStart(s))

startsWith(s, prefix) == Len(s) >= Len(prefix) /\ SubSeq(s, 1, Len(prefix)) = prefix

\* the backquote character, which a TLA+ string cannot hold
Backquote == "BACKQUOTE"
Fence == <<Backquote, Backquote, Backquote>>
JsonTag == <<"j", "s", "o", "n">>

\* .replace(/^FENCE(?:json)?\s*/i, ""), FENCE being three backquotes
stripOpeningFence(s) ==
    IF ~startsWith(s, Fence) THEN s
    ELSE LET rest == SubSeq(s, Len(Fence) + 1, Len(s))
             body == IF startsWith(toLowerCase(rest), JsonTag)
                     THEN SubSeq(rest, Len(JsonTag) + 1, Len(rest))
                     ELSE rest
         IN trimStart(body)

\* .replace(/\s*FENCE$/i, "")
stripClosingFence(s) ==
    IF Len(s) >= Len(Fence) /\ SubSeq(s, Len(s) - Len(Fence) + 1, Len(s)) = Fence
    THEN trimEnd(SubSeq(s, 1, Len(s) - Len(Fence)))
    ELSE s

\* JSON.parse over the model's alphabet: arrays, strings without escapes and
\* numbers written with digits; anything else is a SyntaxError
JsonError == [ok |-> FALSE, pos |-> 0, type |-> "none", s |-> <<>>, elems |-> <<>>]

jsonValue(pos, type, str, elems) ==
    [ok |-> TRUE, pos |-> pos, type |-> type, s |-> str, elems |-> elems]

\* index of the first character at or after i that is not JSON whitespace
RECURSIVE skipWs(_, _)
skipWs(s, i) == IF i <= Len(s) /\ isSpace(s[i]) THEN skipWs(s, i + 1) ELSE i

\* the string whose opening quote is at i - 1: up to the closing quote; a raw
\* control character or the end of input inside it is a SyntaxError
RECURSIVE parseString(_, _, _)
parseString(s, i, acc) ==
    IF i > Len(s) THEN JsonError
    ELSE IF s[i] = "\"" THEN jsonValue(i + 1, "string", acc, <<>>)
    ELSE IF s[i] \in {"\n", "\t"} THEN JsonError
    ELSE parseString(s, i + 1, Append(acc, s[i]))

\* the number starting at i: its maximal run of digits
RECURSIVE parseNumber(_, _)
parseNumber(s, i) ==
    IF i <= Len(s) /\ s[i] \in Digits THEN parseNumber(s, i + 1)
    ELSE jsonValue(i, "number", <<>>, <<>>)

RECURSIVE parseValue(_, _)
RECURSIVE parseElements(_, _, _)

\* the elements of the array whose '[' is before i; acc holds those parsed
parseElements(s, i, acc) ==
    LET j == skipWs(s, i) IN
    IF j > Len(s) THEN JsonError
    ELSE IF s[j] = "]" /\ acc = <<>> THEN jsonValue(j + 1, "array", <<>>, <<>>)
    ELSE LET v == parseValue(s, j) IN
         IF ~v.ok THEN JsonError
         ELSE LET k == skipWs(s, v.pos)
                  vs == Append(acc, [type |-> v.type, s |-> v.s])
              IN IF k > Len(s) THEN JsonError
                 ELSE IF s[k] = "]" THEN jsonValue(k + 1, "array", <<>>, vs)
                 ELSE IF s[k] = "," THEN parseElements(s, k + 1, vs)
                 ELSE JsonError

\* the value starting at i (not whitespace)
parseValue(s, i) ==
    IF i > Len(s) THEN JsonError
    ELSE IF s[i] = "[" THEN parseElements(s, i + 1, <<>>)
    ELSE IF s[i] = "\"" THEN parseString(s, i + 1, <<>>)
    ELSE IF s[i] \in Digits THEN parseNumber(s, i)
    ELSE JsonError

\* JSON.parse(text): one value with optional whitespace around it
jsonParse(text) ==
    LET v == parseValue(text, skipWs(text, 1)) IN
    IF v.ok /\ skipWs(text, v.pos) = Len(text) + 1 THEN v ELSE JsonError

isStringValue(v) == v.type = "string"
nonEmpty(t) == Len(t) > 0

\* parsed.filter(typeof string).map(t => t.trim().toLowerCase()).filter(length > 0)
stringTerms(elems) ==
    LET strings == SelectSeq(elems, isStringValue) IN
    SelectSeq([i \in 1..Len(strings) |-> toLowerCase(trim(strings[i].s))], nonEmpty)

\* cleaned.match(/\[[\s\S]*?\]/): from the first '[' to the first ']' after it
firstBracketed(s) ==
    LET opens == {i \in 1..Len(s) : s[i] = "["} IN
    IF opens = {} THEN [found |-> FALSE, text |-> <<>>]
    ELSE LET i == CHOOSE x \in opens : \A y \in opens : x <= y
             closes == {j \in (i + 1)..Len(s) : s[j] = "]"}
         IN IF closes = {} THEN [found |-> FALSE, text |-> <<>>]
            ELSE LET j == CHOOSE x \in closes : \A y \in closes : x <= y
                 IN [found |-> TRUE, text |-> SubSeq(s, i, j)]

isDelimiter(c) == c \in {",", "\n"}

\* .split(/[,\n]+/): every maximal run of delimiters is one separator
RECURSIVE splitDelimFrom(_, _, _, _)
splitDelimFrom(s, i, cur, acc) ==
    IF i > Len(s) THEN Append(acc, cur)
    ELSE IF isDelimiter(s[i])
         THEN IF i > 1 /\ isDelimiter(s[i - 1])
              THEN splitDelimFrom(s, i + 1, cur, acc)
              ELSE splitDelimFrom(s, i + 1, <<>>, Append(acc, cur))
         ELSE splitDelimFrom(s, i + 1, Append(cur, s[i]), acc)

notBracketOrQuote(c) == c \notin {"\"", "[", "]"}

\* term.replace(/["[\]]/g, '').trim().toLowerCase()
cleanTerm(term) == toLowerCase(trim(SelectSeq(term, notBracketOrQuote)))

\* term.length > 1
longerThanOne(t) == Len(t) > 1

\* the fallback: cleaned.split(/[,\n]+/).map(...).filter(term => term.length > 1)
splitTerms(cleaned) ==
    LET pieces == splitDelimFrom(cleaned, 1, <<>>, <<>>) IN
    SelectSeq([i \in 1..Len(pieces) |-> cleanTerm(pieces[i])], longerThanOne)

\* response.trim() and the two fence replacements
cleanResponse(output) == stripClosingFence(stripOpeningFence(trim(output)))

\* which of the three layers of parseSearchTerms produces the result
parseLayer(output) ==
    LET cleaned == cleanResponse(output)
        m == firstBracketed(cleaned)
    IN IF jsonParse(cleaned).type = "array" THEN "strict"
       ELSE IF m.found /\ jsonParse(m.text).type = "array" THEN "bracketed"
       ELSE "split"

parseSearchTerms(output) ==
    LET cleaned == cleanResponse(output)
        layer == parseLayer(output)
    IN IF layer = "strict" THEN stringTerms(jsonParse(cleaned).elems)
       ELSE IF layer = "bracketed" THEN stringTerms(jsonParse(firstBracketed(cleaned).text).elems)
       ELSE splitTerms(cleaned)

----------------------------------------------------------------------------
(* Inputs *)

\* Queries explored: "database", "Doc api", "the", "api-doc API"
Queries == {
    <<"d","a","t","a","b","a","s","e">>,
    <<"D","o","c"," ","a","p","i">>,
    <<"t","h","e">>,
    <<"a","p","i","-","d","o","c"," ","A","P","I">> }

\* options.limit / args.limit / args.contextLimit: <<>> when absent, <<n>> otherwise
Limits == {<<>>} \cup {<<n>> : n \in 0..MaxLimit}

\* options.label: "" stands for absent (or empty: both are falsy)
NoLabel == ""
OptionLabels == {NoLabel, "x"}

\* `x || d` on an optional number: d when x is absent, 0 or NaN
orDefault(x, d) == IF x = <<>> \/ x[1] = 0 THEN d ELSE x[1]

----------------------------------------------------------------------------
(* Storage engine (external): find(query, {k, mode, snippetChars}) *)

\* label of an engine hit ("" when the hit carries none)
HitLabels == {NoLabel, "x", "y"}
\* score of an engine hit: <<>> when the hit carries none
EngineScores == {<<>>, <<-1>>, <<1>>, <<2>>}
EngineHits == [label : HitLabels, score : EngineScores]

\* The engine returns at most k hits, in an order and with scores of its choosing
EngineResponses(k) == UNION {[1..n -> EngineHits] : n \in 0..Min(k, MaxHits)}

----------------------------------------------------------------------------
(* MemoryManager.search: result mapping and label post-filter *)

\* bug variant: a hit without score is marked -1
mapScoreMissingNegative(sc) == IF sc = <<>> THEN -1 ELSE sc[1]

\* score: hit.score || 0
mapScore(sc) == orDefault(sc, 0)

\* (result.hits || []).map(hit => ({..., score: hit.score || 0, label: hit.label}))
mapHits(hs) == [i \in 1..Len(hs) |-> [label |-> hs[i].label, score |-> mapScore(hs[i].score)]]

\* bug variant: the label option is ignored
filterHitsIgnored(hs, label) == hs

\* options.label ? hits.filter(hit => hit.label === options.label) : hits
filterHits(hs, label) ==
    IF label # NoLabel THEN SelectSeq(hs, LAMBDA h : h.label = label) ELSE hs

\* the SearchResult whose totalHits counts the hits before the label filter
makeSearchResultUnfiltered(hs, label) ==
    [returned |-> TRUE, hits |-> filterHits(mapHits(hs), label), totalHits |-> Len(hs)]

\* { hits: filteredHits, totalHits: filteredHits.length, searchTimeMs }
makeSearchResult(hs, label) ==
    LET filteredHits == filterHits(mapHits(hs), label)
    IN  [returned |-> TRUE, hits |-> filteredHits, totalHits |-> Len(filteredHits)]

\* searchOptions.k = options.limit || 10
searchK(o) == orDefault(o.limit, DefaultLimit)

NoSearchResult == [returned |-> FALSE, hits |-> <<>>, totalHits |-> 0]
NoResponse == [kind |-> "none", isError |-> FALSE, hits |-> <<>>]
NoOpts == [limit |-> <<>>, label |-> NoLabel]

\* LlmConfig.provider 'none'
NoProvider == [name |-> "none", bridgePort |-> FALSE]
\* no provider answer yet
NoOutput == [format |-> "none", items |-> <<>>, text |-> <<>>]
\* rewriteQuery has not returned
NoRewrite == [state |-> "none", terms |-> <<>>]
\* generateAnswer has not returned
NoGenerate == [state |-> "none", answer |-> "none"]
\* this.memory = null
NoHandle == 0
\* no MemoryManager method has completed
NoOp == [op |-> "none", outcome |-> "none", engine |-> FALSE, wasInitialized |-> FALSE,
         initializedAfter |-> FALSE, memoryAfter |-> NoHandle]

----------------------------------------------------------------------------
\* the parts of laterVars before anything ran
laterIdle ==
    /\ providerResponse = "none"
    /\ generateResult = NoGenerate
    /\ settingsConfigured = llmConfigured
    /\ invocations = <<>>
    /\ stdout = <<>>
    /\ memory = NoHandle
    /\ isInitialized = FALSE
    /\ memoryPath = ""
    /\ files = {}
    /\ opened = {}
    /\ sealed = {}
    /\ managerCalls = <<>>
    /\ lastOp = NoOp
    /\ buffer = <<>>
    /\ inputRest = <<>>
    /\ arrived = <<>>
    /\ processed = <<>>
    /\ received = <<>>
    /\ exited = FALSE

Init ==
    /\ pc = "idle"
    /\ tool = "none"
    /\ query = <<>>
    /\ opts = NoOpts
    /\ keywords = <<>>
    /\ kwIndex = 0
    /\ calls = <<>>
    /\ result = <<>>
    /\ searchResult = NoSearchResult
    /\ searchError = FALSE
    /\ statsCalls = 0
    /\ frameCount = 0
    /\ llmConfigured \in BOOLEAN
    /\ llmCalls = <<>>
    /\ rewriteCalls = 0
    /\ response = NoResponse
    /\ llmOutcome = "none"
    /\ initialized \in BOOLEAN
    /\ storeFrames = 0
    /\ engineFailure = "none"
    /\ provider = NoProvider
    /\ providerCalls = 0
    /\ failedKeywords = <<>>
    /\ llmOutput = NoOutput
    /\ rewriteResult = NoRewrite
    /\ laterIdle

----------------------------------------------------------------------------
(* MemvidMcpServer tool handlers and MemoryManager.search *)

\* bug variant: a single direct hit is taken for no hit (length <= 1)
noDirectHitsOffByOne(hs) == Len(hs) <= 1

\* !result.hits || result.hits.length === 0, after the direct query
noDirectHits(hs) == Len(hs) = 0

\* bug variant: the OR result is never looked at, the keyword loop always runs
noOrHitsAlways(hs) == TRUE

\* !result.hits || result.hits.length === 0, after the OR query
noOrHits(hs) == Len(hs) = 0

\* bug variant: the loop breaks only on more than one hit (length > 1)
keywordHitOffByOne(hs) == Len(hs) > 1

\* bug variant: the loop has no break and runs over every keyword
keywordHitNoBreak(hs) == FALSE

\* result.hits && result.hits.length > 0, inside the keyword loop (break)
keywordHit(hs) == Len(hs) > 0

FindFailed == [ok |-> FALSE, hits |-> <<>>]

\* Outcomes of one engine find call: a response, or a raised error
FindOutcomes(k) == {[ok |-> TRUE, hits |-> hs] : hs \in EngineResponses(k)} \cup {FindFailed}

findCall(tier, q, out) ==
    [tier |-> tier, q |-> q, k |-> searchK(opts), ok |-> out.ok, hits |-> out.hits]

\* handleSearch after search returned sr
searchResponse(sr) ==
    IF Len(sr.hits) = 0
    THEN [kind |-> "noResults", isError |-> FALSE, hits |-> <<>>]
    ELSE [kind |-> "found", isError |-> FALSE, hits |-> sr.hits]

\* bug variant: the context-only rendering keeps the first hit only
contextResponseFirstOnly(sr) ==
    [kind |-> "context", isError |-> FALSE, hits |-> SubSeq(sr.hits, 1, Min(1, Len(sr.hits)))]

\* handleAsk: context-only rendering of the hits
contextResponse(sr) == [kind |-> "context", isError |-> FALSE, hits |-> sr.hits]

\* handleAsk: searchResult.hits.slice(0, 3) rendered as sources of the answer
answerResponse(sr) ==
    [kind |-> "answer", isError |-> FALSE, hits |-> SubSeq(sr.hits, 1, Min(3, Len(sr.hits)))]

\* search maps, filters and returns the hits hs of its last find call; the
\* calling handler goes on with the SearchResult
SearchReturns(hs) ==
    LET sr == makeSearchResult(hs, opts.label) IN
    /\ result' = hs
    /\ searchResult' = sr
    /\ searchError' = FALSE
    /\ engineFailure' = engineFailure
    /\ IF tool = "search"
       THEN /\ response' = searchResponse(sr)
            /\ pc' = "done"
       ELSE IF Len(sr.hits) = 0
            THEN /\ response' = [kind |-> "noRelevant", isError |-> FALSE, hits |-> <<>>]
                 /\ pc' = "done"
            ELSE IF llmConfigured
                 THEN /\ response' = response
                      /\ pc' = "llm"
                 ELSE /\ response' = contextResponse(sr)
                      /\ pc' = "done"

\* bug variant: the error of a find call is swallowed and an empty result returned
SearchThrowsSwallowed == SearchReturns(<<>>)

\* a find call raised: search throws SearchError, the handler's catch answers
SearchThrows ==
    /\ result' = result
    /\ searchResult' = searchResult
    /\ searchError' = TRUE
    /\ engineFailure' = "find"
    /\ response' = [kind |-> IF tool = "search" THEN "searchFailed" ELSE "queryFailed",
                    isError |-> TRUE, hits |-> <<>>]
    /\ pc' = "done"

\* handleSearch up to the first await of search
HandleSearch(q, limit, label) ==
    /\ pc = "idle"
    /\ initialized
    /\ tool' = "search"
    /\ query' = q
    /\ opts' = [limit |-> limit, label |-> label]
    /\ pc' = "tier0"
    /\ UNCHANGED <<keywords, kwIndex, calls, result, searchResult, searchError,
                   statsCalls, frameCount, llmConfigured, llmCalls, rewriteCalls, response>>
    /\ UNCHANGED <<llmOutcome, initialized, storeFrames, engineFailure>>
    /\ UNCHANGED rewriteVars
    /\ UNCHANGED laterVars

\* handleAsk up to the await of getStats
HandleAsk(q, contextLimit) ==
    /\ pc = "idle"
    /\ initialized
    /\ tool' = "ask"
    /\ query' = q
    /\ opts' = [limit |-> <<orDefault(contextLimit, DefaultContextLimit)>>, label |-> NoLabel]
    /\ pc' = "stats"
    /\ UNCHANGED <<keywords, kwIndex, calls, result, searchResult, searchError,
                   statsCalls, frameCount, llmConfigured, llmCalls, rewriteCalls, response>>
    /\ UNCHANGED <<llmOutcome, initialized, storeFrames, engineFailure>>
    /\ UNCHANGED rewriteVars
    /\ UNCHANGED laterVars

\* bug variant: handleAsk searches without looking at stats.frameCount
AskStatsNoEmptyCheck(ok, n) ==
    /\ pc = "stats"
    /\ statsCalls' = statsCalls + 1
    /\ frameCount' = IF ok THEN n ELSE 0
    /\ storeFrames' = n
    /\ engineFailure' = IF ok THEN "none" ELSE "stats"
    /\ response' = response
    /\ pc' = "tier0"
    /\ UNCHANGED <<tool, query, opts, keywords, kwIndex, calls, result, searchResult,
                   searchError, llmConfigured, llmCalls, rewriteCalls>>
    /\ UNCHANGED <<llmOutcome, initialized>>
    /\ UNCHANGED rewriteVars
    /\ UNCHANGED laterVars

\* getStats returns: frame_count || 0, or the default stats when stats() raised
AskStats(ok, n) ==
    /\ pc = "stats"
    /\ statsCalls' = statsCalls + 1
    /\ frameCount' = IF ok THEN n ELSE 0
    /\ storeFrames' = n
    /\ engineFailure' = IF ok THEN "none" ELSE "stats"
    /\ IF frameCount' = 0
       THEN /\ response' = [kind |-> "emptyMemory", isError |-> FALSE, hits |-> <<>>]
            /\ pc' = "done"
       ELSE /\ response' = response
            /\ pc' = "tier0"
    /\ UNCHANGED <<tool, query, opts, keywords, kwIndex, calls, result, searchResult,
                   searchError, llmConfigured, llmCalls, rewriteCalls>>
    /\ UNCHANGED <<llmOutcome, initialized>>
    /\ UNCHANGED rewriteVars
    /\ UNCHANGED laterVars

\* Tier 0: mv.find(query, searchOptions)
FindDirect(out) ==
    /\ pc = "tier0"
    /\ calls' = Append(calls, findCall(0, query, out))
    /\ IF ~out.ok
       THEN SearchThrows /\ UNCHANGED keywords
       ELSE IF ~noDirectHits(out.hits)
            THEN SearchReturns(out.hits) /\ UNCHANGED keywords
            ELSE /\ keywords' = extractKeywords(query)
                 /\ IF keywords' = <<>>
                    THEN SearchReturns(out.hits)
                    ELSE /\ pc' = "tier1"
                         /\ result' = out.hits
                         /\ UNCHANGED <<searchResult, searchError, response, engineFailure>>
    /\ UNCHANGED <<tool, query, opts, kwIndex, statsCalls, frameCount, llmConfigured,
                   llmCalls, rewriteCalls>>
    /\ UNCHANGED <<llmOutcome, initialized, storeFrames>>
    /\ UNCHANGED rewriteVars
    /\ UNCHANGED laterVars

\* Tier 1: mv.find(keywords.join(' OR '), searchOptions)
FindOr(out) ==
    /\ pc = "tier1"
    /\ calls' = Append(calls, findCall(1, joinOr(keywords), out))
    /\ IF ~out.ok
       THEN SearchThrows /\ UNCHANGED kwIndex
       ELSE IF ~noOrHits(out.hits)
            THEN SearchReturns(out.hits) /\ UNCHANGED kwIndex
            ELSE /\ pc' = "tier2"
                 /\ kwIndex' = 1
                 /\ result' = out.hits
                 /\ UNCHANGED <<searchResult, searchError, response, engineFailure>>
    /\ UNCHANGED <<tool, query, opts, keywords, statsCalls, frameCount, llmConfigured,
                   llmCalls, rewriteCalls>>
    /\ UNCHANGED <<llmOutcome, initialized, storeFrames>>
    /\ UNCHANGED rewriteVars
    /\ UNCHANGED laterVars

\* Tier 2: one iteration of `for (const keyword of keywords)`
FindKeyword(out) ==
    /\ pc = "tier2"
    /\ calls' = Append(calls, findCall(2, keywords[kwIndex], out))
    /\ IF ~out.ok
       THEN SearchThrows /\ UNCHANGED kwIndex
       ELSE IF keywordHit(out.hits) \/ kwIndex = Len(keywords)
            THEN SearchReturns(out.hits) /\ UNCHANGED kwIndex
            ELSE /\ pc' = "tier2"
                 /\ kwIndex' = kwIndex + 1
                 /\ result' = out.hits
                 /\ UNCHANGED <<searchResult, searchError, response, engineFailure>>
    /\ UNCHANGED <<tool, query, opts, keywords, statsCalls, frameCount, llmConfigured,
                   llmCalls, rewriteCalls>>
    /\ UNCHANGED <<llmOutcome, initialized, storeFrames>>
    /\ UNCHANGED rewriteVars
    /\ UNCHANGED laterVars

\* bug variant: no inner try around generateAnswer, a throw reaches the outer catch
GenerateAnswerNoInnerCatch(outcome) ==
    /\ pc = "llm"
    /\ llmCalls' = Append(llmCalls, searchResult.hits)
    /\ llmOutcome' = outcome
    /\ response' = IF outcome = "answer"
                   THEN answerResponse(searchResult)
                   ELSE IF outcome = "throw"
                        THEN [kind |-> "queryFailed", isError |-> TRUE, hits |-> <<>>]
                        ELSE contextResponse(searchResult)
    /\ pc' = "done"
    /\ UNCHANGED <<tool, query, opts, keywords, kwIndex, calls, result, searchResult,
                   searchError, statsCalls, frameCount, llmConfigured, rewriteCalls>>
    /\ UNCHANGED <<initialized, storeFrames, engineFailure>>
    /\ UNCHANGED rewriteVars
    /\ UNCHANGED laterVars

\* handleAsk: llmService.generateAnswer(question, searchResult.hits) settles
GenerateAnswer(outcome) ==
    /\ pc = "llm"
    /\ llmCalls' = Append(llmCalls, searchResult.hits)
    /\ llmOutcome' = outcome
    /\ response' = IF outcome = "answer"
                   THEN answerResponse(searchResult)
                   ELSE contextResponse(searchResult)
    /\ pc' = "done"
    /\ UNCHANGED <<tool, query, opts, keywords, kwIndex, calls, result, searchResult,
                   searchError, statsCalls, frameCount, llmConfigured, rewriteCalls>>
    /\ UNCHANGED <<initialized, storeFrames, engineFailure>>
    /\ UNCHANGED rewriteVars
    /\ UNCHANGED laterVars

\* a McpToolResponse of one text item that lists no hits
textResponse(kind, isError) == [kind |-> kind, isError |-> isError, hits |-> <<>>]

\* number of items in the content list of a McpToolResponse; a handler that
\* threw ("thrown") or has not returned ("none") produced no content
contentItems(resp) == IF resp.kind \in {"none", "thrown"} THEN 0 ELSE 1

\* params.name of a tools/call request: the five tools and any other name
ToolNames == {"store", "search", "ask", "timeline", "stats", "unknown"}

\* a tools/call that is answered without a search: the fields every such
\* handler leaves alone
answers(name, resp) ==
    /\ pc = "idle"
    /\ tool' = name
    /\ response' = resp
    /\ pc' = "done"
    /\ UNCHANGED <<query, opts, keywords, kwIndex, calls, result, searchResult, searchError,
                   llmConfigured, llmCalls, rewriteCalls, llmOutcome, initialized>>
    /\ UNCHANGED rewriteVars
    /\ UNCHANGED laterVars

\* handleToolCall before start() opened the memory
NotInitialized(name) ==
    /\ ~initialized
    /\ answers(name, textResponse("notInitialized", TRUE))
    /\ UNCHANGED <<statsCalls, frameCount, storeFrames, engineFailure>>

\* bug variant: an unknown tool name raises, as an unknown method does
UnknownToolThrows ==
    /\ initialized
    /\ answers("unknown", textResponse("thrown", TRUE))
    /\ UNCHANGED <<statsCalls, frameCount, storeFrames, engineFailure>>

\* handleToolCall, default branch of the switch
UnknownTool ==
    /\ initialized
    /\ answers("unknown", textResponse("unknownTool", TRUE))
    /\ UNCHANGED <<statsCalls, frameCount, storeFrames, engineFailure>>

\* handleStore: MemoryManager.store wraps a failed put in StoreError
HandleStore(ok) ==
    /\ initialized
    /\ answers("store", IF ok THEN textResponse("stored", FALSE)
                               ELSE textResponse("storeFailed", TRUE))
    /\ engineFailure' = IF ok THEN "none" ELSE "put"
    /\ UNCHANGED <<statsCalls, frameCount, storeFrames>>

\* args.limit || 20 of handleTimeline
DefaultTimelineLimit == 20

\* mv.timeline: not a function of this engine, raises, or returns n entries
TimelineOutcomes(k) ==
    {[kind |-> "absent", n |-> 0], [kind |-> "throw", n |-> 0]}
        \cup {[kind |-> "entries", n |-> n] : n \in 0..Min(k, MaxFrames)}

\* mv.find('*', ...) of the timeline fallback: raises, or returns n hits
FallbackOutcomes(k) ==
    {[ok |-> FALSE, n |-> 0]} \cup {[ok |-> TRUE, n |-> n] : n \in 0..Min(k, MaxFrames)}

\* the fallback find runs when timeline is absent or returned no entries
fallbackRuns(tl) == tl.kind = "absent" \/ (tl.kind = "entries" /\ tl.n = 0)

\* number of entries getTimeline returns; its catch returns [] for any failure
getTimeline(tl, fb) ==
    IF tl.kind = "throw" THEN 0
    ELSE IF fallbackRuns(tl) THEN (IF fb.ok THEN fb.n ELSE 0)
    ELSE tl.n

\* handleTimeline
HandleTimeline(limit, tl, fb) ==
    /\ initialized
    /\ answers("timeline", IF getTimeline(tl, fb) = 0
                           THEN textResponse("timelineEmpty", FALSE)
                           ELSE textResponse("timeline", FALSE))
    /\ engineFailure' = IF tl.kind = "throw" THEN "timeline"
                        ELSE IF fallbackRuns(tl) /\ ~fb.ok THEN "find"
                        ELSE "none"
    /\ UNCHANGED <<statsCalls, frameCount, storeFrames>>

\* handleStats: getStats returns the default stats when stats() raised
HandleStats(ok, n) ==
    /\ initialized
    /\ answers("stats", textResponse("stats", FALSE))
    /\ statsCalls' = statsCalls + 1
    /\ frameCount' = IF ok THEN n ELSE 0
    /\ storeFrames' = n
    /\ engineFailure' = IF ok THEN "none" ELSE "stats"

\* the user changes the provider settings between two invocations; the running
\* server keeps the LlmService its constructor built from the environment
ConfigChange ==
    /\ pc = "idle"
    /\ settingsConfigured' = ~settingsConfigured
    /\ UNCHANGED <<pc, handlerVars, rewriteVars, generateVars, invocations, stdout, managerVars, inputVars, rpcVars>>

\* the response is sent; the server is ready for the next tools/call
Respond ==
    /\ pc = "done"
    /\ pc' = "idle"
    /\ tool' = "none"
    /\ query' = <<>>
    /\ opts' = NoOpts
    /\ keywords' = <<>>
    /\ kwIndex' = 0
    /\ calls' = <<>>
    /\ result' = <<>>
    /\ searchResult' = NoSearchResult
    /\ searchError' = FALSE
    /\ statsCalls' = 0
    /\ frameCount' = 0
    /\ llmCalls' = <<>>
    /\ response' = NoResponse
    /\ llmOutcome' = "none"
    /\ storeFrames' = 0
    /\ engineFailure' = "none"
    /\ UNCHANGED <<llmConfigured, rewriteCalls, initialized>>
    /\ UNCHANGED rewriteVars
    /\ UNCHANGED laterVars

Next ==
    \/ \E q \in Queries, limit \in Limits, label \in OptionLabels : HandleSearch(q, limit, label)
    \/ \E q \in Queries, contextLimit \in Limits : HandleAsk(q, contextLimit)
    \/ \E ok \in BOOLEAN, n \in 0..MaxFrames : AskStats(ok, n)
    \/ pc = "tier0" /\ \E out \in FindOutcomes(searchK(opts)) : FindDirect(out)
    \/ pc = "tier1" /\ \E out \in FindOutcomes(searchK(opts)) : FindOr(out)
    \/ pc = "tier2" /\ \E out \in FindOutcomes(searchK(opts)) : FindKeyword(out)
    \/ \E outcome \in {"answer", "null", "throw"} : GenerateAnswer(outcome)
    \/ \E name \in ToolNames : NotInitialized(name)
    \/ UnknownTool
    \/ \E ok \in BOOLEAN : HandleStore(ok)
    \/ \E limit \in Limits :
          \E tl \in TimelineOutcomes(orDefault(limit, DefaultTimelineLimit)),
             fb \in FallbackOutcomes(orDefault(limit, DefaultTimelineLimit)) :
                HandleTimeline(limit, tl, fb)
    \/ \E ok \in BOOLEAN, n \in 0..MaxFrames : HandleStats(ok, n)
    \/ ConfigChange
    \/ Respond

Spec == Init /\ [][Next]_vars

----------------------------------------------------------------------------
(* LlmService.rewriteQuery and parseSearchTerms on provider output *)

MaxItems == 3       \* most terms a provider output is written from

\* terms a provider may write: one letter, mixed case, padded, empty, with a bracket
ItemStrings == {<<"a">>, <<"A", "b">>, <<" ", "c", "d">>, <<>>, <<"a", "]">>}

ItemLists == UNION {[1..n -> ItemStrings] : n \in 0..MaxItems}

RECURSIVE joinWith(_, _)
joinWith(parts, sep) ==
    IF parts = <<>> THEN <<>>
    ELSE IF Len(parts) = 1 THEN parts[1]
         ELSE parts[1] \o sep \o joinWith(Tail(parts), sep)

\* JSON text of an array of strings
jsonArray(items) ==
    <<"[">> \o joinWith([i \in 1..Len(items) |-> <<"\"">> \o items[i] \o <<"\"">>], <<",", " ">>)
        \o <<"]">>

\* the shapes of answer the rewrite prompt gets from a model
OutputFormats == {"array", "fenced", "fencedJson", "prose", "proseBracket", "list", "lines"}

renderOutput(format, items) ==
    CASE format = "array" -> jsonArray(items)
      [] format = "fenced" -> Fence \o <<"\n">> \o jsonArray(items) \o <<"\n">> \o Fence
      [] format = "fencedJson" ->
            Fence \o JsonTag \o <<"\n">> \o jsonArray(items) \o <<"\n">> \o Fence
      [] format = "prose" -> <<"s", "e", "e", " ">> \o jsonArray(items) \o <<" ", "e", "n", "d">>
      [] format = "proseBracket" -> <<"[", "1", "]", " ">> \o jsonArray(items)
      [] format = "list" -> joinWith(items, <<",", " ">>)
      [] format = "lines" -> joinWith(items, <<"\n">>)

ModelOutputs ==
    {[format |-> f, items |-> items, text |-> renderOutput(f, items)] :
        f \in OutputFormats, items \in ItemLists}

\* LlmConfig.provider as createLlmServiceFromEnv casts it from the environment,
\* and whether MEMVID_BRIDGE_PORT gave a copilotConfig
Providers ==
    {[name |-> n, bridgePort |-> FALSE] :
        n \in {"none", "copilot", "openai", "azureOpenai", "ollama", "other"}}
        \cup {[name |-> "copilot", bridgePort |-> TRUE]}

FailedKeywordLists == {<<>>, <<<<"a">>>>, <<<<"a", "b">>, <<"c", "d">>>>}

\* LlmService.isConfigured
isConfigured(p) == IF p.name = "copilot" THEN p.bridgePort ELSE p.name # "none"

\* what the awaited provider call can do: the fetch raises, the provider answers
\* non-2xx, or it answers 2xx with text; the bridge has no /llm/rewrite route
CallOutcomes(p) ==
    IF p.name = "copilot" THEN {"throw", "non2xx"} ELSE {"throw", "non2xx", "ok"}

\* the handler variables at rest
handlersIdle ==
    /\ tool = "none"
    /\ query = <<>>
    /\ opts = NoOpts
    /\ keywords = <<>>
    /\ kwIndex = 0
    /\ calls = <<>>
    /\ result = <<>>
    /\ searchResult = NoSearchResult
    /\ searchError = FALSE
    /\ statsCalls = 0
    /\ frameCount = 0
    /\ llmCalls = <<>>
    /\ rewriteCalls = 0
    /\ response = NoResponse
    /\ llmOutcome = "none"
    /\ storeFrames = 0
    /\ engineFailure = "none"

InitRewrite ==
    /\ handlersIdle
    /\ pc = "rewrite"
    /\ provider \in Providers
    /\ llmConfigured = isConfigured(provider)
    /\ initialized = TRUE
    /\ providerCalls = 0
    /\ failedKeywords \in FailedKeywordLists
    /\ llmOutput = NoOutput
    /\ rewriteResult = NoRewrite
    /\ laterIdle

RewriteNull == [state |-> "null", terms |-> <<>>]

\* bug variant: no try around the provider call, its error reaches the caller
settleRewriteUncaught(outcome, out) ==
    IF outcome = "ok"
    THEN [state |-> "terms", terms |-> parseSearchTerms(out.text)]
    ELSE [state |-> "raised", terms |-> <<>>]

\* the try block of rewriteQuery once the provider call settled: the parsed
\* terms, or null from the catch
settleRewrite(outcome, out) ==
    IF outcome = "ok"
    THEN [state |-> "terms", terms |-> parseSearchTerms(out.text)]
    ELSE RewriteNull

\* rewriteQuery up to the await of the provider call
RewriteQuery ==
    /\ pc = "rewrite"
    /\ IF ~isConfigured(provider) \/ provider.name = "other"
       THEN /\ rewriteResult' = RewriteNull
            /\ pc' = "rewritten"
       ELSE /\ rewriteResult' = rewriteResult
            /\ pc' = "rewriteCall"
    /\ UNCHANGED <<provider, providerCalls, failedKeywords, llmOutput>>
    /\ UNCHANGED handlerVars
    /\ UNCHANGED laterVars

\* the provider call settles and rewriteQuery returns
ProviderSettles(outcome, out) ==
    /\ pc = "rewriteCall"
    /\ providerCalls' = providerCalls + 1
    /\ llmOutput' = IF outcome = "ok" THEN out ELSE [out EXCEPT !.format = outcome]
    /\ rewriteResult' = settleRewrite(outcome, out)
    /\ pc' = "rewritten"
    /\ UNCHANGED <<provider, failedKeywords>>
    /\ UNCHANGED handlerVars
    /\ UNCHANGED laterVars

NextRewrite ==
    \/ RewriteQuery
    \/ pc = "rewriteCall" /\ \E outcome \in CallOutcomes(provider) :
          \E out \in (IF outcome = "ok" THEN ModelOutputs ELSE {NoOutput}) :
              ProviderSettles(outcome, out)

SpecRewrite == InitRewrite /\ [][NextRewrite]_vars

\* parseSearchTerms on its own: every model output is parsed once
InitParse ==
    /\ handlersIdle
    /\ pc = "parse"
    /\ provider = NoProvider
    /\ llmConfigured = FALSE
    /\ initialized = TRUE
    /\ providerCalls = 0
    /\ failedKeywords = <<>>
    /\ llmOutput \in ModelOutputs
    /\ rewriteResult = NoRewrite
    /\ laterIdle

ParseSearchTerms ==
    /\ pc = "parse"
    /\ rewriteResult' = [state |-> "terms", terms |-> parseSearchTerms(llmOutput.text)]
    /\ pc' = "parsed"
    /\ UNCHANGED <<provider, providerCalls, failedKeywords, llmOutput>>
    /\ UNCHANGED handlerVars
    /\ UNCHANGED laterVars

NextParse == ParseSearchTerms

SpecParse == InitParse /\ [][NextParse]_vars

----------------------------------------------------------------------------
(* MemoryManager.extractKeywords on its own *)

MaxPieces == 3      \* most pieces a query is put together from

\* a keyword in two spellings, another keyword, stopwords, a short word, whitespace, punctuation
QueryPieces ==
    {<<"d", "a", "d">>, <<"D", "a", "d">>, <<"a", "p", "i">>, <<"t", "h", "e">>, <<"a", "n">>,
     <<"a", "1">>, <<" ">>, <<"-">>}

RECURSIVE concat(_)
concat(parts) == IF parts = <<>> THEN <<>> ELSE Head(parts) \o concat(Tail(parts))

KeywordQueries ==
    {concat(parts) : parts \in UNION {[1..n -> QueryPieces] : n \in 0..MaxPieces}}

InitKeywords ==
    /\ tool = "none"
    /\ query \in KeywordQueries
    /\ opts = NoOpts
    /\ keywords = <<>>
    /\ kwIndex = 0
    /\ calls = <<>>
    /\ result = <<>>
    /\ searchResult = NoSearchResult
    /\ searchError = FALSE
    /\ statsCalls = 0
    /\ frameCount = 0
    /\ llmCalls = <<>>
    /\ rewriteCalls = 0
    /\ response = NoResponse
    /\ llmOutcome = "none"
    /\ storeFrames = 0
    /\ engineFailure = "none"
    /\ pc = "keywords"
    /\ llmConfigured = FALSE
    /\ initialized = TRUE
    /\ provider = NoProvider
    /\ providerCalls = 0
    /\ failedKeywords = <<>>
    /\ llmOutput = NoOutput
    /\ rewriteResult = NoRewrite
    /\ laterIdle

\* const keywords = this.extractKeywords(query)
ExtractKeywords ==
    /\ pc = "keywords"
    /\ keywords' = extractKeywords(query)
    /\ pc' = "extracted"
    /\ UNCHANGED <<tool, query, opts, kwIndex, calls, result, searchResult, searchError,
                   statsCalls, frameCount, llmConfigured, llmCalls, rewriteCalls, response,
                   llmOutcome, initialized, storeFrames, engineFailure>>
    /\ UNCHANGED rewriteVars
    /\ UNCHANGED laterVars

NextKeywords == ExtractKeywords

SpecKeywords == InitKeywords /\ [][NextKeywords]_vars

----------------------------------------------------------------------------
(* LlmService.generateAnswer and its provider calls *)

\* what generateAnswer leaves alone
generateFrame ==
    <<handlerVars, provider, failedKeywords, llmOutput, rewriteResult, settingsConfigured,
      invocations, stdout, managerVars, inputVars, rpcVars>>

\* what the awaited fetch and the reading of its body can give: the fetch raises;
\* a non-2xx status; a 2xx body that is not JSON; a 2xx JSON body that is no
\* object of the expected shape (null, or without choices); a 2xx body of the
\* expected shape that lacks the generated text; a 2xx body with the text
ProviderResponses == {"networkError", "non2xx", "notJson", "notObject", "noText", "text"}

InitGenerate ==
    /\ tool = "none"
    /\ query \in Queries
    /\ opts = NoOpts
    /\ keywords = <<>>
    /\ kwIndex = 0
    /\ calls = <<>>
    /\ result = <<>>
    /\ searchResult = NoSearchResult
    /\ searchError = FALSE
    /\ statsCalls = 0
    /\ frameCount = 0
    /\ llmCalls = <<>>
    /\ rewriteCalls = 0
    /\ response = NoResponse
    /\ llmOutcome = "none"
    /\ storeFrames = 0
    /\ engineFailure = "none"
    /\ pc = "generate"
    /\ provider \in Providers
    /\ llmConfigured = isConfigured(provider)
    /\ initialized = TRUE
    /\ providerCalls = 0
    /\ failedKeywords = <<>>
    /\ llmOutput = NoOutput
    /\ rewriteResult = NoRewrite
    /\ laterIdle

GenerateNull == [state |-> "null", answer |-> "none"]
GenerateRaised == [state |-> "raised", answer |-> "none"]

\* callOpenAI, callAzureOpenAI, callOllama, callCopilotBridge after the fetch:
\* throw on !response.ok; response.json() rejects for a body that is not JSON;
\* reading choices[0] or message of a body without them raises TypeError; a
\* missing content becomes 'No response generated.', a missing answer of the
\* bridge stays undefined
readAnswer(p, resp) ==
    IF resp \in {"networkError", "non2xx", "notJson", "notObject"} THEN GenerateRaised
    ELSE IF resp = "text" THEN [state |-> "answer", answer |-> "generated"]
    ELSE IF p.name = "copilot" THEN [state |-> "answer", answer |-> "undefined"]
    ELSE [state |-> "answer", answer |-> "placeholder"]

\* generateAnswer up to the await of the fetch of the provider call
GenerateAnswerCall ==
    /\ pc = "generate"
    /\ IF ~isConfigured(provider) \/ provider.name = "other"
       THEN /\ generateResult' = GenerateNull
            /\ pc' = "generated"
       ELSE /\ generateResult' = generateResult
            /\ pc' = "generateCall"
    /\ UNCHANGED <<providerCalls, providerResponse>>
    /\ UNCHANGED generateFrame

\* the request is answered and generateAnswer settles
ProviderAnswers(resp) ==
    /\ pc = "generateCall"
    /\ providerCalls' = providerCalls + 1
    /\ providerResponse' = resp
    /\ generateResult' = readAnswer(provider, resp)
    /\ pc' = "generated"
    /\ UNCHANGED generateFrame

\* the caller calls generateAnswer again, for its next question
GenerateAgain ==
    /\ pc = "generated"
    /\ pc' = "generate"
    /\ providerCalls' = 0
    /\ providerResponse' = "none"
    /\ generateResult' = NoGenerate
    /\ UNCHANGED generateFrame

NextGenerate ==
    \/ GenerateAnswerCall
    \/ \E resp \in ProviderResponses : ProviderAnswers(resp)
    \/ GenerateAgain

SpecGenerate == InitGenerate /\ [][NextGenerate]_vars

----------------------------------------------------------------------------
(* MemvidMcpServer with several tools/call requests in flight *)

MaxInFlight == 2    \* tools/call requests read from stdin

serverVars == <<invocations, stdout>>

\* what the concurrent handlers leave alone
serverFrame == <<pc, handlerVars, rewriteVars, generateVars, settingsConfigured, managerVars, inputVars, rpcVars>>

ServerTools == {"search", "ask"}
ServerQuestions == {<<"d", "a", "d">>, <<"a", "p", "i">>}

\* what the engine can answer to a search for q: hits found for q, best first
HitsFor(q) == {[r \in 1..n |-> [for |-> q, rank |-> r]] : n \in 0..MaxHits}

InitServer ==
    /\ handlersIdle
    /\ pc = "serving"
    /\ llmConfigured \in BOOLEAN
    /\ initialized = TRUE
    /\ provider = NoProvider
    /\ providerCalls = 0
    /\ failedKeywords = <<>>
    /\ llmOutput = NoOutput
    /\ rewriteResult = NoRewrite
    /\ laterIdle

\* bug variant: a line is processed only after the earlier requests were answered
startsAfterEarlier(invs) == \A i \in 1..Len(invs) : invs[i].stage = "done"

\* handleInput does not await processMessage(line): a line is processed
\* whatever the earlier invocations are doing
startsAtOnce(invs) == TRUE

\* bug variant: the hits come from a field shared by all invocations, which
\* another invocation's search has written
localHitsShared(invs, i, hs) ==
    IF \E j \in 1..Len(invs) : j # i /\ invs[j].searched THEN
        invs[CHOOSE j \in 1..Len(invs) : j # i /\ invs[j].searched].hits
    ELSE hs

\* const searchResult = await this.memoryManager.search(...): a local of the
\* invocation
localHits(invs, i, hs) == hs

\* sendResult(request.id, result)
sendResponse(i, kind, hs) == Append(stdout, [id |-> i, kind |-> kind, hits |-> hs])

\* a tools/call line is read: processMessage runs the handler up to its first
\* await, getStats for memvid_ask and search for memvid_search
Arrive(t, q) ==
    /\ pc = "serving"
    /\ Len(invocations) < MaxInFlight
    /\ startsAtOnce(invocations)
    /\ invocations' = Append(invocations,
            [tool |-> t, question |-> q, stage |-> IF t = "ask" THEN "stats" ELSE "search",
             searched |-> FALSE, hits |-> <<>>, llmHits |-> <<>>])
    /\ UNCHANGED stdout
    /\ UNCHANGED serverFrame

\* getStats of invocation i settles
StatsSettles(i, empty) ==
    /\ i \in 1..Len(invocations)
    /\ invocations[i].stage = "stats"
    /\ IF empty
       THEN /\ invocations' = [invocations EXCEPT ![i].stage = "done"]
            /\ stdout' = sendResponse(i, "emptyMemory", <<>>)
       ELSE /\ invocations' = [invocations EXCEPT ![i].stage = "search"]
            /\ stdout' = stdout
    /\ UNCHANGED serverFrame

\* the search of invocation i returns the engine's hits hs
SearchSettles(i, hs) ==
    /\ i \in 1..Len(invocations)
    /\ invocations[i].stage = "search"
    /\ LET inv == invocations[i]
           own == localHits(invocations, i, hs)
       IN IF inv.tool = "search"
          THEN /\ invocations' = [invocations EXCEPT ![i].stage = "done",
                                        ![i].searched = TRUE, ![i].hits = hs]
               /\ stdout' = sendResponse(i, IF own = <<>> THEN "noResults" ELSE "found", own)
          ELSE IF own = <<>>
               THEN /\ invocations' = [invocations EXCEPT ![i].stage = "done",
                                            ![i].searched = TRUE, ![i].hits = hs]
                    /\ stdout' = sendResponse(i, "noRelevant", <<>>)
               ELSE IF llmConfigured
                    THEN /\ invocations' = [invocations EXCEPT ![i].stage = "provider",
                                ![i].searched = TRUE, ![i].hits = hs, ![i].llmHits = own]
                         /\ stdout' = stdout
                    ELSE /\ invocations' = [invocations EXCEPT ![i].stage = "done",
                                ![i].searched = TRUE, ![i].hits = hs]
                         /\ stdout' = sendResponse(i, "context", own)
    /\ UNCHANGED serverFrame

\* generateAnswer of invocation i settles
ProviderSettlesFor(i, outcome) ==
    /\ i \in 1..Len(invocations)
    /\ invocations[i].stage = "provider"
    /\ invocations' = [invocations EXCEPT ![i].stage = "done"]
    /\ LET shown == invocations[i].llmHits IN
       stdout' = IF outcome = "answer"
                 THEN sendResponse(i, "answer", SubSeq(shown, 1, Min(3, Len(shown))))
                 ELSE sendResponse(i, "context", shown)
    /\ UNCHANGED serverFrame

NextServer ==
    \/ \E t \in ServerTools, q \in ServerQuestions : Arrive(t, q)
    \/ \E i \in 1..MaxInFlight, empty \in BOOLEAN : StatsSettles(i, empty)
    \/ \E i \in 1..Len(invocations) :
          \E hs \in HitsFor(invocations[i].question) : SearchSettles(i, hs)
    \/ \E i \in 1..MaxInFlight, outcome \in {"answer", "null", "throw"} :
          ProviderSettlesFor(i, outcome)

SpecServer == InitServer /\ [][NextServer]_vars

----------------------------------------------------------------------------
(* Properties *)

\* Hits of engine response hs that the caller is due: those carrying the
\* requested label when one is requested, all otherwise, in the engine's order
RECURSIVE hitsDue(_, _)
hitsDue(hs, label) ==
    IF hs = <<>> THEN <<>>
    ELSE LET rest == hitsDue(Tail(hs), label)
             h == [label |-> Head(hs).label,
                   score |-> IF Head(hs).score = <<>> THEN 0 ELSE Head(hs).score[1]]
         IN  IF label = NoLabel \/ Head(hs).label = label THEN <<h>> \o rest ELSE rest

lastCall == calls[Len(calls)]

\* q is the keywords ks written one after the other with " OR " in between
RECURSIVE orOffset(_, _)
orOffset(ks, j) == IF j = 1 THEN 1 ELSE orOffset(ks, j - 1) + Len(ks[j - 1]) + 4

isOrQuery(q, ks) ==
    /\ ks # <<>>
    /\ Len(q) = orOffset(ks, Len(ks)) + Len(ks[Len(ks)]) - 1
    /\ \A j \in 1..Len(ks) :
          SubSeq(q, orOffset(ks, j), orOffset(ks, j) + Len(ks[j]) - 1) = ks[j]
    /\ \A j \in 1..(Len(ks) - 1) :
          SubSeq(q, orOffset(ks, j) + Len(ks[j]), orOffset(ks, j + 1) - 1) = <<" ", "O", "R", " ">>

\* C1: when the first find call (the raw query) returns at least one hit, that
\* call is the only find call of the search, no rewrite is requested, and the
\* search returns exactly its hits, label-filtered.
C1_DirectHitShortCircuits ==
    (calls # <<>> /\ calls[1].ok /\ calls[1].hits # <<>>) =>
        /\ Len(calls) = 1
        /\ calls[1].tier = 0 /\ calls[1].q = query
        /\ rewriteCalls = 0
        /\ searchResult.returned
        /\ searchResult.hits = hitsDue(calls[1].hits, opts.label)

C1_Witness ==
    /\ tool = "search" /\ pc = "done"
    /\ Len(calls) = 1 /\ Len(calls[1].hits) = 1
    /\ extractKeywords(query) # <<>>
    /\ searchResult.returned /\ Len(searchResult.hits) = 1

\* C2: when the raw query returns 0 hits and the OR query over the (non-empty)
\* keyword list returns at least one hit, the search makes exactly these two
\* find calls, no single-keyword or rewritten-term query, and returns exactly
\* the OR query's hits, label-filtered.
C2_OrHitShortCircuits ==
    (Len(calls) >= 2 /\ calls[2].ok /\ calls[2].hits # <<>>) =>
        /\ Len(calls) = 2
        /\ calls[1].tier = 0 /\ calls[1].ok /\ calls[1].hits = <<>>
        /\ calls[2].tier = 1
        /\ isOrQuery(calls[2].q, keywords)
        /\ rewriteCalls = 0
        /\ searchResult.returned
        /\ searchResult.hits = hitsDue(calls[2].hits, opts.label)

C2_Witness ==
    /\ tool = "search" /\ pc = "done"
    /\ Len(calls) = 2 /\ Len(calls[2].hits) = 2
    /\ Len(keywords) = 2
    /\ searchResult.returned /\ Len(searchResult.hits) = 2

\* C3: when the raw query and the OR query both return 0 hits, the following
\* find calls are single-keyword queries over the extracted keywords in
\* extraction order; the search stops at the first keyword with a hit and
\* returns its hits, queries no later keyword, and returns an empty result
\* when every keyword came back without a hit.
C3_KeywordSweep ==
    (Len(calls) >= 2 /\ calls[2].ok /\ calls[2].hits = <<>>) =>
        /\ \A i \in 3..Len(calls) :
              /\ calls[i].tier = 2
              /\ i - 2 <= Len(keywords)
              /\ calls[i].q = keywords[i - 2]
        /\ \A i \in 3..(Len(calls) - 1) : calls[i].ok /\ calls[i].hits = <<>>
        /\ pc = "tier2" => kwIndex = Len(calls) - 1 /\ kwIndex <= Len(keywords)
        /\ pc # "tier2" => Len(calls) >= 3
        /\ searchResult.returned =>
              /\ searchResult.hits = hitsDue(lastCall.hits, opts.label)
              /\ lastCall.hits = <<>> => Len(calls) = 2 + Len(keywords)

C3_Witness ==
    /\ tool = "search" /\ pc = "done"
    /\ Len(keywords) = 2 /\ Len(calls) = 3
    /\ calls[3].q = keywords[1]
    /\ Len(calls[3].hits) = 1
    /\ searchResult.returned /\ Len(searchResult.hits) = 1

\* C4: when the raw query, the OR query and every single-keyword query have
\* returned 0 hits and a language-model provider is configured, the search
\* asks the Query Rewriter for alternative terms before it gives up.
C4_RewriteTierRuns ==
    (/\ pc = "done" /\ llmConfigured /\ searchResult.returned
     /\ calls # <<>>
     /\ \A i \in 1..Len(calls) : calls[i].ok /\ calls[i].hits = <<>>)
        => rewriteCalls > 0

C6_LabelPostFilter ==
    (searchResult.returned /\ opts.label # NoLabel) =>
        /\ pc = "done"
        /\ searchResult.hits = hitsDue(lastCall.hits, opts.label)
        /\ \A i \in 1..Len(searchResult.hits) : searchResult.hits[i].label = opts.label
        /\ searchResult.totalHits = Len(searchResult.hits)
        /\ \A i \in 1..(Len(calls) - 1) : calls[i].hits = <<>>
        /\ lastCall.hits = <<>> => Len(calls) = IF keywords = <<>> THEN 1 ELSE 2 + Len(keywords)

C6_Witness ==
    /\ searchResult.returned /\ opts.label = "x"
    /\ Len(calls) = 1 /\ Len(keywords) = 0
    /\ Len(lastCall.hits) = 2
    /\ lastCall.hits[1].label = "y" /\ lastCall.hits[2].label = "x"
    /\ searchResult.totalHits = 1

\* C7: a find call that fails is the last find call of the search; the search
\* returns no SearchResult and raises SearchError, no provider call is made,
\* and the tool response reports the failure with isError set.
C7_FindFailureAborts ==
    \A i \in 1..Len(calls) :
        ~calls[i].ok =>
            /\ i = Len(calls)
            /\ searchError /\ ~searchResult.returned
            /\ llmCalls = <<>>
            /\ pc = "done"
            /\ response.isError
            /\ response.kind = IF tool = "search" THEN "searchFailed" ELSE "queryFailed"

C7_Witness ==
    /\ tool = "ask" /\ Len(calls) = 3
    /\ ~calls[3].ok
    /\ response.isError /\ response.kind = "queryFailed"

\* C8: a returned SearchResult holds at most options.limit hits, or at most
\* 10 when no limit is given.
C8_HitsWithinLimit ==
    searchResult.returned =>
        Len(searchResult.hits) <= (IF opts.limit = <<>> THEN DefaultLimit ELSE opts.limit[1])

nonNegativeDescending(scores) ==
    /\ \A i \in 1..Len(scores) : scores[i] >= 0
    /\ \A i \in 1..Len(scores) : \A j \in (i + 1)..Len(scores) : scores[i] >= scores[j]

\* C9 as stated: the hits of every returned SearchResult have non-negative
\* scores in descending order, whatever the engine responded.
C9_ScoresDescending ==
    searchResult.returned =>
        nonNegativeDescending([i \in 1..Len(searchResult.hits) |-> searchResult.hits[i].score])

\* C9 amended: when the scores of the terminating engine response are
\* non-negative and descending (a hit without score counting as 0), so are
\* the scores of the returned hits, after mapping and label filtering.
C9_EngineOrderKept ==
    (/\ searchResult.returned
     /\ nonNegativeDescending([i \in 1..Len(lastCall.hits) |->
            IF lastCall.hits[i].score = <<>> THEN 0 ELSE lastCall.hits[i].score[1]]))
        => nonNegativeDescending([i \in 1..Len(searchResult.hits) |-> searchResult.hits[i].score])

C9_Witness ==
    /\ searchResult.returned /\ opts.label = "x"
    /\ Len(lastCall.hits) = 2
    /\ lastCall.hits[1].score = <<2>> /\ lastCall.hits[2].score = <<>>
    /\ Len(searchResult.hits) = 2
    /\ searchResult.hits[1].score = 2 /\ searchResult.hits[2].score = 0

\* C10: when getStats reports frameCount 0, memvid_ask answers with the
\* empty-memory text, does not set isError, and has made no find call and no
\* provider call.
C10_EmptyMemory ==
    (tool = "ask" /\ statsCalls > 0 /\ frameCount = 0) =>
        /\ pc = "done"
        /\ response.kind = "emptyMemory"
        /\ ~response.isError
        /\ calls = <<>>
        /\ llmCalls = <<>>
        /\ rewriteCalls = 0

C10_Witness ==
    /\ tool = "ask" /\ statsCalls = 1 /\ frameCount = 0
    /\ response.kind = "emptyMemory" /\ llmConfigured

\* C11: when a provider is configured, the search of memvid_ask has at least one
\* hit and the provider call fails (it throws, or yields an absent result), the
\* response is not an error and is the context-only rendering of the retrieved
\* hits, every hit in order.
C11_ProviderFailureDegrades ==
    (pc = "done" /\ tool = "ask" /\ llmConfigured /\ searchResult.returned
        /\ Len(searchResult.hits) > 0 /\ llmOutcome \in {"null", "throw"})
    => /\ response.isError = FALSE
       /\ response.kind = "context"
       /\ response.hits = searchResult.hits

C11_Witness ==
    /\ pc = "done" /\ tool = "ask" /\ llmConfigured
    /\ Len(searchResult.hits) = 2
    /\ llmOutcome = "throw"
    /\ response.kind = "context"

\* C12: when no provider is configured and the search of memvid_ask has at least
\* one hit, no provider call is made and the response is the raw retrieved
\* context, one block per hit in hit order, without the model/provider footer of
\* a synthesized answer.
C12_NoProviderRawContext ==
    (pc = "done" /\ tool = "ask" /\ ~llmConfigured /\ searchResult.returned
        /\ Len(searchResult.hits) > 0)
    => /\ llmCalls = <<>>
       /\ llmOutcome = "none"
       /\ response = [kind |-> "context", isError |-> FALSE, hits |-> searchResult.hits]

C12_Witness ==
    /\ pc = "done" /\ tool = "ask" /\ ~llmConfigured
    /\ Len(searchResult.hits) = 2
    /\ searchResult.hits[1] # searchResult.hits[2]
    /\ llmCalls = <<>>
    /\ response.kind = "context"

\* C13: memvid_ask answers with the empty-memory text exactly when the store
\* holds no entries and with the zero-hit text exactly when the store holds
\* entries and the search has no hits; neither is an error, neither calls the
\* provider; memvid_search with zero hits answers no-results without isError.
C13_EmptyAndZeroHit ==
    /\ (pc = "done" /\ tool = "ask" /\ initialized)
        => /\ (response.kind = "emptyMemory") <=> (storeFrames = 0)
           /\ (response.kind = "noRelevant")
                <=> (storeFrames > 0 /\ searchResult.returned /\ Len(searchResult.hits) = 0)
           /\ response.kind \in {"emptyMemory", "noRelevant"}
                => (~response.isError /\ llmCalls = <<>>)
    /\ (pc = "done" /\ tool = "search" /\ searchResult.returned /\ Len(searchResult.hits) = 0)
        => (response.kind = "noResults" /\ ~response.isError)

\* C14: every tools/call, whatever the tool name, the arguments, the state of
\* the memory and the outcome of engine and provider, ends with handleToolCall
\* returning a response whose content holds at least one text item.
C14_AlwaysWellFormed ==
    (pc = "done") => (response.kind \notin {"none", "thrown"} /\ contentItems(response) >= 1)

C14_Witness ==
    /\ pc = "done" /\ tool = "unknown" /\ initialized
    /\ response.kind = "unknownTool"
    /\ contentItems(response) = 1

\* C15: whenever the engine operation under a tool call fails (put, find,
\* timeline, stats) the tool response has isError true.
C15_EngineFailureIsError ==
    (pc = "done" /\ engineFailure # "none") => response.isError

\* the terms a comma- or newline-separated output was written from, as the claim
\* wants them back: brackets and quotes stripped, trimmed, lower-cased, empties dropped
expectedListTerms(items) ==
    SelectSeq([i \in 1..Len(items) |-> cleanTerm(items[i])], nonEmpty)

\* C16: for output that is not JSON and holds no bracketed array,
\* parseSearchTerms returns every non-empty comma/newline-separated item, trimmed,
\* lower-cased and stripped of brackets and quotes, in order ("a, b, c" gives
\* a, b, c), and the empty list when there is no item.
C16_DelimiterSplit ==
    (pc = "parsed" /\ llmOutput.format \in {"list", "lines"})
    => rewriteResult.terms = expectedListTerms(llmOutput.items)

\* the strings of a JSON array as the claim wants them back: trimmed,
\* lower-cased, empties dropped, in the array's order
expectedArrayTerms(items) ==
    SelectSeq([i \in 1..Len(items) |-> toLowerCase(trim(items[i]))], nonEmpty)

\* C17: for every output that is a JSON array of strings, bare, in a code fence
\* (with or without the json tag) or inside prose, parseSearchTerms returns
\* exactly the array's strings, trimmed, lower-cased, empties dropped, in order;
\* strict JSON is tried first and the bracketed substring only when it gives no array.
C17_JsonArrayRecovered ==
    (pc = "parsed"
        /\ llmOutput.format \in {"array", "fenced", "fencedJson", "prose", "proseBracket"})
    => /\ rewriteResult.terms = expectedArrayTerms(llmOutput.items)
       /\ llmOutput.format \in {"array", "fenced", "fencedJson"}
            => parseLayer(llmOutput.text) = "strict"
       /\ llmOutput.format \in {"prose", "proseBracket"}
            => parseLayer(llmOutput.text) = "bracketed"

\* "Maximum 8 terms" of the rewrite prompt
MaxRewriteTerms == 8

\* C18: every QueryRewriteResult has at most 8 terms, no duplicate term, only
\* lower-cased non-empty terms, and no term of the failedKeywords passed in.
C18_RewriteTermsBounded ==
    (rewriteResult.state = "terms")
    => LET terms == rewriteResult.terms IN
       /\ Len(terms) <= MaxRewriteTerms
       /\ \A i, j \in 1..Len(terms) : terms[i] = terms[j] => i = j
       /\ \A i \in 1..Len(terms) : terms[i] # <<>> /\ terms[i] = toLowerCase(terms[i])
       /\ \A i \in 1..Len(terms), j \in 1..Len(failedKeywords) : terms[i] # failedKeywords[j]

\* C19: rewriteQuery never raises; it returns null without a provider call when
\* no provider is configured, and null when the provider call throws or answers
\* non-2xx, whichever the provider, the bridge included.
C19_RewriteNeverRaises ==
    /\ rewriteResult.state # "raised"
    /\ (pc = "rewritten" /\ ~isConfigured(provider))
        => (rewriteResult = RewriteNull /\ providerCalls = 0)
    /\ (pc = "rewritten" /\ llmOutput.format \in {"throw", "non2xx"})
        => (rewriteResult = RewriteNull /\ providerCalls = 1)

C19_Witness ==
    /\ pc = "rewritten"
    /\ provider = [name |-> "copilot", bridgePort |-> TRUE]
    /\ llmOutput.format = "non2xx"
    /\ providerCalls = 1
    /\ rewriteResult = RewriteNull

\* the tokens of q: the maximal runs of letters and digits of the lower-cased q
tokensOf(q) ==
    LET lq == toLowerCase(q)
        isRun(i, j) ==
            /\ \A x \in i..j : isLetterOrDigit(lq[x])
            /\ (i = 1 \/ ~isLetterOrDigit(lq[i - 1]))
            /\ (j = Len(lq) \/ ~isLetterOrDigit(lq[j + 1]))
    IN {SubSeq(lq, i, j) : <<i, j>> \in {r \in (1..Len(lq)) \X (1..Len(lq)) :
                                            r[1] <= r[2] /\ isRun(r[1], r[2])}}

\* the keywords the claim expects of q
expectedKeywords(q) == {t \in tokensOf(q) : Len(t) > 2 /\ t \notin stopwords}

\* q in the other letter case, letter by letter
swapCase(q) ==
    [i \in 1..Len(q) |->
        IF q[i] \in UpperCase THEN lowerChar(q[i])
        ELSE IF \E u \in UpperCase : lowerChar(u) = q[i]
             THEN CHOOSE u \in UpperCase : lowerChar(u) = q[i]
             ELSE q[i]]

\* the words of q in reverse order, space-separated
RECURSIVE reverseWords(_, _, _)
reverseWords(q, i, cur) ==
    IF i > Len(q) THEN cur
    ELSE IF isLetterOrDigit(q[i])
         THEN reverseWords(q, i + 1, Append(cur, q[i]))
         ELSE reverseWords(q, i + 1, <<>>) \o <<" ">> \o cur

seqToSet(xs) == {xs[i] : i \in 1..Len(xs)}

\* C20: extractKeywords returns exactly the distinct tokens of the lower-cased
\* query (split at characters that are neither letter nor digit) that are longer
\* than 2 and no stopword; the set is the same for the query in another letter
\* case or word order, and empty for a query of stopwords and punctuation only.
C20_KeywordsAreTokens ==
    (pc = "extracted")
    => /\ seqToSet(keywords) = expectedKeywords(query)
       /\ \A i, j \in 1..Len(keywords) : keywords[i] = keywords[j] => i = j
       /\ seqToSet(extractKeywords(swapCase(query))) = seqToSet(keywords)
       /\ seqToSet(extractKeywords(reverseWords(query, 1, <<>>))) = seqToSet(keywords)
       /\ (\A t \in tokensOf(query) : t \in stopwords) => keywords = <<>>

C20_Witness ==
    /\ pc = "extracted"
    /\ query = <<"D", "a", "d", " ", "d", "a", "d">>
    /\ keywords = <<<<"d", "a", "d">>>>

\* C21: extractKeywords is idempotent: applied to its own output joined with
\* spaces it returns the same keywords in the same order.
C21_ExtractIdempotent ==
    (pc = "extracted") => extractKeywords(joinWith(keywords, <<" ">>)) = keywords

C21_Witness ==
    /\ pc = "extracted"
    /\ query = <<"a", "p", "i", "-", "D", "a", "d">>
    /\ keywords = << <<"a", "p", "i">>, <<"d", "a", "d">> >>
    /\ extractKeywords(joinWith(keywords, <<" ">>)) = keywords

\* C22: one generateAnswer call makes at most one outbound request; a non-2xx
\* response and a 2xx response that lacks the generated text raise an error to
\* the caller instead of returning an answer.
C22_OneRequestOrError ==
    /\ providerCalls <= 1
    /\ (pc = "generated" /\ providerResponse \in {"non2xx", "notJson", "notObject", "noText"})
        => generateResult.state = "raised"

\* C23: a memvid_ask invocation uses the provider configuration in effect when
\* it is made: after the settings changed, the next invocation of the same
\* server calls the provider exactly when the settings now name one.
C23_ConfigReadFresh ==
    (pc = "done" /\ tool = "ask" /\ searchResult.returned /\ Len(searchResult.hits) > 0)
    => ((llmCalls # <<>>) <=> settingsConfigured)

\* messages on stdout that answer invocation i
responsesTo(i) == {k \in 1..Len(stdout) : stdout[k].id = i}

C26_OwnHits ==
    (pc = "serving")
    => /\ \A i \in 1..Len(invocations) :
            LET inv == invocations[i] IN
            (inv.tool = "ask" /\ inv.searched)
            => /\ \A r \in 1..Len(inv.hits) : inv.hits[r].for = inv.question
               /\ (llmConfigured /\ inv.hits # <<>>) => inv.llmHits = inv.hits
               /\ ~llmConfigured => inv.llmHits = <<>>
       /\ \A k \in 1..Len(stdout) :
            LET inv == invocations[stdout[k].id] IN
            inv.tool = "ask"
            => /\ stdout[k].kind = "context" => stdout[k].hits = inv.hits
               /\ stdout[k].kind = "answer"
                    => stdout[k].hits = SubSeq(inv.hits, 1, Min(3, Len(inv.hits)))

C26_Witness ==
    /\ pc = "serving"
    /\ Len(invocations) = 2
    /\ \A i \in 1..2 : invocations[i].tool = "ask" /\ invocations[i].stage = "done"
    /\ invocations[1].question # invocations[2].question
    /\ Len(invocations[1].hits) = 1 /\ Len(invocations[2].hits) = 2
    /\ Len(stdout) = 2
    /\ stdout[1] = [id |-> 2, kind |-> "answer", hits |-> invocations[2].hits]
    /\ stdout[2] = [id |-> 1, kind |-> "context", hits |-> invocations[1].hits]

-----------------------------------------------------------------------------
(* MemoryManager: initialize, close, clear and the data operations.          *)
(* Every method is async; a call runs up to its next await in one step,      *)
(* and what it awaits settles in a later step, so that calls started by      *)
(* different commands interleave at their awaits.                            *)

MaxCalls == 2       \* initialize / close / clear calls started in one run

managerFrame ==
    <<pc, handlerVars, rewriteVars, generateVars, settingsConfigured, invocations, stdout, inputVars, rpcVars>>

Paths == {"a", "b"}
DataOps == {"store", "search", "ask", "getTimeline", "getStats"}

\* a call that has returned or raised
DoneCall == [op |-> "done", at |-> "done", path |-> "", autoCreate |-> FALSE, h |-> NoHandle]

InitManager ==
    /\ handlersIdle
    /\ pc = "manager"
    /\ llmConfigured = FALSE
    /\ initialized = FALSE
    /\ provider = NoProvider
    /\ providerCalls = 0
    /\ failedKeywords = <<>>
    /\ llmOutput = NoOutput
    /\ rewriteResult = NoRewrite
    /\ providerResponse = "none"
    /\ generateResult = NoGenerate
    /\ settingsConfigured = FALSE
    /\ invocations = <<>>
    /\ stdout = <<>>
    /\ memory = NoHandle
    /\ isInitialized = FALSE
    /\ memoryPath = ""
    /\ files \in SUBSET Paths
    /\ opened = {}
    /\ sealed = {}
    /\ managerCalls = <<>>
    /\ lastOp = NoOp
    /\ buffer = <<>>
    /\ inputRest = <<>>
    /\ arrived = <<>>
    /\ processed = <<>>
    /\ received = <<>>
    /\ exited = FALSE

\* ensureInitialized: TRUE when it raises MemoryNotInitializedError
ensureInitializedNever(init, mem) == FALSE
ensureInitialized(init, mem) == ~init \/ mem = NoHandle

\* the guard of close: TRUE when close returns without sealing
closeReturnsAtOnce(init, mem) == ~init \/ mem = NoHandle

completed(op, outcome, engine, init, mem) ==
    [op |-> op, outcome |-> outcome, engine |-> engine, wasInitialized |-> isInitialized,
     initializedAfter |-> init, memoryAfter |-> mem]

\* the catch block of initialize: both fields are reset and the error is raised;
\* clear wraps the error of its initialize in a MemoryFileError
InitializeRaises(i) ==
    /\ isInitialized' = FALSE
    /\ memory' = NoHandle
    /\ managerCalls' = [managerCalls EXCEPT ![i] = DoneCall]
    /\ lastOp' = completed(managerCalls[i].op, "raised", FALSE, FALSE, NoHandle)

\* initialize from the assignment of memoryPath to the await of getMemvidSdk():
\* the directory of the path exists, or is made when autoCreate, or the call raises
Prepare(i, c, dirExists) ==
    /\ memoryPath' = c.path
    /\ IF dirExists \/ c.autoCreate
         THEN /\ managerCalls' = [managerCalls EXCEPT ![i] = [c EXCEPT !.at = "sdk"]]
              /\ UNCHANGED <<memory, isInitialized, lastOp>>
         ELSE /\ isInitialized' = FALSE
              /\ memory' = NoHandle
              /\ managerCalls' = [managerCalls EXCEPT ![i] = DoneCall]
              /\ lastOp' = completed(c.op, "raised", FALSE, FALSE, NoHandle)

\* initialize(memoryFilePath, autoCreate) up to its first await
StartInitialize(p, ac, dirExists) ==
    /\ pc = "manager"
    /\ Len(managerCalls) < MaxCalls
    /\ LET i == Len(managerCalls) + 1
           c == [op |-> "initialize", at |-> "start", path |-> p, autoCreate |-> ac,
                 h |-> NoHandle]
       IN  IF isInitialized /\ memoryPath = p
             THEN /\ managerCalls' = Append(managerCalls, DoneCall)
                  /\ lastOp' = completed("initialize", "returned", FALSE, isInitialized, memory)
                  /\ UNCHANGED <<memory, isInitialized, memoryPath>>
             ELSE IF isInitialized
               THEN /\ managerCalls' = Append(managerCalls,
                          IF closeReturnsAtOnce(isInitialized, memory)
                            THEN [c EXCEPT !.at = "closed"]
                            ELSE [c EXCEPT !.at = "sealing", !.h = memory])
                    /\ UNCHANGED <<memory, isInitialized, memoryPath, lastOp>>
               ELSE /\ memoryPath' = p
                    /\ IF dirExists \/ ac
                         THEN /\ managerCalls' = Append(managerCalls, [c EXCEPT !.at = "sdk"])
                              /\ UNCHANGED <<memory, isInitialized, lastOp>>
                         ELSE /\ isInitialized' = FALSE
                              /\ memory' = NoHandle
                              /\ managerCalls' = Append(managerCalls, DoneCall)
                              /\ lastOp' = completed("initialize", "raised", FALSE, FALSE, NoHandle)
    /\ UNCHANGED <<files, opened, sealed>>
    /\ UNCHANGED managerFrame

\* close() up to its await of seal()
StartClose ==
    /\ pc = "manager"
    /\ Len(managerCalls) < MaxCalls
    /\ IF closeReturnsAtOnce(isInitialized, memory)
         THEN /\ managerCalls' = Append(managerCalls, DoneCall)
              /\ lastOp' = completed("close", "returned", FALSE, isInitialized, memory)
         ELSE /\ managerCalls' = Append(managerCalls,
                    [op |-> "close", at |-> "sealing", path |-> "", autoCreate |-> FALSE,
                     h |-> memory])
              /\ UNCHANGED lastOp
    /\ UNCHANGED <<memory, isInitialized, memoryPath, files, opened, sealed>>
    /\ UNCHANGED managerFrame

\* clear() up to its await of close(): the path is read first
StartClear ==
    /\ pc = "manager"
    /\ Len(managerCalls) < MaxCalls
    /\ managerCalls' = Append(managerCalls,
          IF closeReturnsAtOnce(isInitialized, memory)
            THEN [op |-> "clear", at |-> "closed", path |-> memoryPath, autoCreate |-> TRUE,
                  h |-> NoHandle]
            ELSE [op |-> "clear", at |-> "sealing", path |-> memoryPath, autoCreate |-> TRUE,
                  h |-> memory])
    /\ UNCHANGED <<memory, isInitialized, memoryPath, files, opened, sealed, lastOp>>
    /\ UNCHANGED managerFrame

\* seal() settles, having returned or raised: the finally block of close drops
\* the handle and resets isInitialized
SealSettles(i) ==
    /\ pc = "manager"
    /\ i \in 1..Len(managerCalls)
    /\ managerCalls[i].at = "sealing"
    /\ sealed' = sealed \cup {managerCalls[i].h}
    /\ memory' = NoHandle
    /\ isInitialized' = FALSE
    /\ IF managerCalls[i].op = "close"
         THEN /\ managerCalls' = [managerCalls EXCEPT ![i] = DoneCall]
              /\ lastOp' = completed("close", "returned", FALSE, FALSE, NoHandle)
         ELSE /\ managerCalls' = [managerCalls EXCEPT ![i].at = "closed", ![i].h = NoHandle]
              /\ UNCHANGED lastOp
    /\ UNCHANGED <<memoryPath, files, opened>>
    /\ UNCHANGED managerFrame

\* the await of close() in initialize or clear resumes: clear deletes the file
\* and calls initialize(currentPath, true), which has nothing to close then
\* unless another call has opened the same path meanwhile
CloseReturned(i, dirExists) ==
    /\ pc = "manager"
    /\ i \in 1..Len(managerCalls)
    /\ managerCalls[i].at = "closed"
    /\ LET c == managerCalls[i]
       IN  IF c.op = "clear"
             THEN /\ files' = files \ {c.path}
                  /\ IF isInitialized /\ memoryPath = c.path
                       THEN /\ managerCalls' = [managerCalls EXCEPT ![i] = DoneCall]
                            /\ lastOp' = completed("clear", "returned", FALSE, isInitialized, memory)
                            /\ UNCHANGED <<memory, isInitialized, memoryPath>>
                       ELSE IF isInitialized
                         THEN /\ managerCalls' = [managerCalls EXCEPT ![i] =
                                    IF closeReturnsAtOnce(isInitialized, memory)
                                      THEN [c EXCEPT !.op = "initialize", !.at = "closed"]
                                      ELSE [c EXCEPT !.op = "initialize", !.at = "sealing",
                                                     !.h = memory]]
                              /\ UNCHANGED <<memory, isInitialized, memoryPath, lastOp>>
                         ELSE Prepare(i, c, TRUE)
             ELSE /\ Prepare(i, c, dirExists)
                  /\ UNCHANGED files
    /\ UNCHANGED <<opened, sealed>>
    /\ UNCHANGED managerFrame

\* getMemvidSdk() settles: the file is opened when it exists, created when
\* autoCreate, and the call raises otherwise
SdkSettles(i, ok) ==
    /\ pc = "manager"
    /\ i \in 1..Len(managerCalls)
    /\ managerCalls[i].at = "sdk"
    /\ IF ok /\ (managerCalls[i].path \in files \/ managerCalls[i].autoCreate)
         THEN /\ managerCalls' = [managerCalls EXCEPT ![i].at = "opening"]
              /\ UNCHANGED <<memory, isInitialized, lastOp>>
         ELSE InitializeRaises(i)
    /\ UNCHANGED <<memoryPath, files, opened, sealed>>
    /\ UNCHANGED managerFrame

\* sdk.use / sdk.create settles: the new handle is assigned to this.memory and
\* isInitialized is set, or the catch block runs
OpenSettles(i, ok) ==
    /\ pc = "manager"
    /\ i \in 1..Len(managerCalls)
    /\ managerCalls[i].at = "opening"
    /\ IF ok
         THEN LET h == Cardinality(opened) + 1
              IN  /\ opened' = opened \cup {h}
                  /\ memory' = h
                  /\ isInitialized' = TRUE
                  /\ files' = files \cup ({managerCalls[i].path} \cap Paths)
                  /\ managerCalls' = [managerCalls EXCEPT ![i] = DoneCall]
                  /\ lastOp' = completed(managerCalls[i].op, "returned", TRUE, TRUE, h)
         ELSE /\ InitializeRaises(i)
              /\ UNCHANGED <<files, opened>>
    /\ UNCHANGED <<memoryPath, sealed>>
    /\ UNCHANGED managerFrame

\* store, search, ask, getTimeline, getStats: ensureInitialized comes first;
\* getTimeline and getStats answer with a default when the engine raises
DataOp(op, engineOk) ==
    /\ pc = "manager"
    /\ lastOp' =
         IF ensureInitialized(isInitialized, memory)
           THEN completed(op, "MemoryNotInitializedError", FALSE, isInitialized, memory)
           ELSE completed(op,
                          IF engineOk \/ op \in {"getTimeline", "getStats"}
                            THEN "returned" ELSE "raised",
                          TRUE, isInitialized, memory)
    /\ UNCHANGED <<memory, isInitialized, memoryPath, files, opened, sealed, managerCalls>>
    /\ UNCHANGED managerFrame

NextManager ==
    \/ \E p \in Paths, ac \in BOOLEAN, dirExists \in BOOLEAN : StartInitialize(p, ac, dirExists)
    \/ StartClose
    \/ StartClear
    \/ \E i \in 1..MaxCalls : SealSettles(i)
    \/ \E i \in 1..MaxCalls, dirExists \in BOOLEAN : CloseReturned(i, dirExists)
    \/ \E i \in 1..MaxCalls, ok \in BOOLEAN : SdkSettles(i, ok)
    \/ \E i \in 1..MaxCalls, ok \in BOOLEAN : OpenSettles(i, ok)
    \/ \E op \in DataOps, engineOk \in BOOLEAN : DataOp(op, engineOk)

SpecManager == InitManager /\ [][NextManager]_vars

\* C25: the manager holds at most one open engine handle: every handle that
\* was opened is the current one or seal() was called on it
C25_OneOpenHandle ==
    pc = "manager" => \A h \in opened : h = memory \/ h \in sealed

\* C27: isInitialized only with a handle held; a failed initialize and every
\* close leave the manager uninitialized without a handle; a data operation
\* on an uninitialized manager raises MemoryNotInitializedError and does not
\* call the engine
C27_InitializedMeansHandle ==
    pc = "manager" =>
        /\ isInitialized => memory # NoHandle
        /\ (lastOp.op = "initialize" /\ lastOp.outcome = "raised") =>
               (~lastOp.initializedAfter /\ lastOp.memoryAfter = NoHandle)
        /\ lastOp.op = "close" =>
               (~lastOp.initializedAfter /\ lastOp.memoryAfter = NoHandle)
        /\ (lastOp.op \in DataOps /\ ~lastOp.wasInitialized) =>
               (lastOp.outcome = "MemoryNotInitializedError" /\ ~lastOp.engine)

\* a data operation was refused after a close that followed a successful initialize
C27_Witness ==
    /\ pc = "manager"
    /\ lastOp.op \in DataOps
    /\ lastOp.outcome = "MemoryNotInitializedError"
    /\ opened # {}
    /\ sealed # {}

-----------------------------------------------------------------------------
(* MemvidMcpServer.handleInput: the stdin stream arrives in chunks and is    *)
(* split into newline-delimited lines.                                       *)

MaxStream == 4      \* longest stdin stream explored, in characters

NL == "\n"
InputChars == {"{", " ", NL}

inputFrame ==
    <<pc, handlerVars, rewriteVars, generateVars, settingsConfigured, invocations, stdout,
      managerVars, rpcVars>>

\* every stream of at most n characters
Streams(n) == UNION {[1..k -> InputChars] : k \in 0..n}

InitInput ==
    /\ handlersIdle
    /\ pc = "input"
    /\ llmConfigured = FALSE
    /\ initialized = TRUE
    /\ provider = NoProvider
    /\ providerCalls = 0
    /\ failedKeywords = <<>>
    /\ llmOutput = NoOutput
    /\ rewriteResult = NoRewrite
    /\ providerResponse = "none"
    /\ generateResult = NoGenerate
    /\ settingsConfigured = FALSE
    /\ invocations = <<>>
    /\ stdout = <<>>
    /\ memory = NoHandle
    /\ isInitialized = FALSE
    /\ memoryPath = ""
    /\ files = {}
    /\ opened = {}
    /\ sealed = {}
    /\ managerCalls = <<>>
    /\ lastOp = NoOp
    /\ buffer = <<>>
    /\ arrived = <<>>
    /\ processed = <<>>
    /\ received = <<>>
    /\ exited = FALSE
    /\ inputRest \in Streams(MaxStream)

\* this.buffer.indexOf('\n'), 0 for -1, positions counted from 1
RECURSIVE newlineIndexFrom(_, _)
newlineIndexFrom(s, i) ==
    IF i > Len(s) THEN 0
    ELSE IF s[i] = NL THEN i ELSE newlineIndexFrom(s, i + 1)

\* the loop of handleInput that stops after the first line of a chunk
splitOnce(buf, lines) ==
    LET newlineIndex == newlineIndexFrom(buf, 1)
    IN  IF newlineIndex = 0
          THEN [buffer |-> buf, lines |-> lines]
          ELSE LET line == trim(SubSeq(buf, 1, newlineIndex - 1))
                   rest == SubSeq(buf, newlineIndex + 1, Len(buf))
               IN  [buffer |-> rest,
                    lines |-> IF line # <<>> THEN Append(lines, line) ELSE lines]

\* the while loop of handleInput over the buffer: the lines it hands to
\* processMessage and the buffer it leaves
RECURSIVE splitLines(_, _)
splitLines(buf, lines) ==
    LET newlineIndex == newlineIndexFrom(buf, 1)
    IN  IF newlineIndex = 0
          THEN [buffer |-> buf, lines |-> lines]
          ELSE LET line == trim(SubSeq(buf, 1, newlineIndex - 1))
                   rest == SubSeq(buf, newlineIndex + 1, Len(buf))
               IN  splitLines(rest, IF line # <<>> THEN Append(lines, line) ELSE lines)

\* handleInput(chunk), the chunk being the next n characters of the stream
HandleInput(n) ==
    /\ pc = "input"
    /\ n \in 1..Len(inputRest)
    /\ LET chunk == SubSeq(inputRest, 1, n)
           out == splitLines(buffer \o chunk, <<>>)
       IN  /\ buffer' = out.buffer
           /\ processed' = processed \o out.lines
           /\ arrived' = arrived \o chunk
           /\ inputRest' = SubSeq(inputRest, n + 1, Len(inputRest))
    /\ UNCHANGED inputFrame

NextInput == \E n \in 1..MaxStream : HandleInput(n)

SpecInput == InitInput /\ [][NextInput]_vars

\* the positions of the newlines of s, ascending
newlinesOf(s) == {i \in 1..Len(s) : s[i] = NL}

\* the k-th complete line of s, without its newline
lineOf(s, k) ==
    LET ends == newlinesOf(s)
        e == CHOOSE i \in ends : Cardinality({j \in ends : j < i}) = k - 1
        before == {j \in ends : j < e}
        b == IF before = {} THEN 1 ELSE (CHOOSE j \in before : \A x \in before : x <= j) + 1
    IN  SubSeq(s, b, e - 1)

\* the complete lines of s that are not blank, in order, each trimmed
RECURSIVE nonBlankLines(_, _)
nonBlankLines(s, k) ==
    IF k > Cardinality(newlinesOf(s)) THEN <<>>
    ELSE LET l == trim(lineOf(s, k))
         IN  (IF l # <<>> THEN <<l>> ELSE <<>>) \o nonBlankLines(s, k + 1)

\* what follows the last newline of s
trailingOf(s) ==
    LET ends == newlinesOf(s)
    IN  IF ends = {} THEN s
        ELSE SubSeq(s, (CHOOSE j \in ends : \A x \in ends : x <= j) + 1, Len(s))

-----------------------------------------------------------------------------
(* MemvidMcpServer.processMessage: one line of input is parsed, routed to    *)
(* its method and answered on stdout.                                        *)

MaxMessages == 2    \* lines handed to processMessage in one run

rpcFrame ==
    <<pc, handlerVars, rewriteVars, generateVars, settingsConfigured, invocations,
      managerVars, inputVars>>

\* request.id: <<>> when the message has no id member, <<n>> for the id n
NoId == <<>>
RequestIds == {NoId, <<1>>, <<2>>}
Methods == {"initialize", "initialized", "tools/list", "tools/call", "shutdown", "other"}
\* a line that is not JSON, a message whose jsonrpc member is not '2.0', a
\* JSON-RPC 2.0 message
LineShapes == {"notJson", "badVersion", "ok"}

InitRpc ==
    /\ handlersIdle
    /\ pc = "rpc"
    /\ llmConfigured = FALSE
    /\ initialized = TRUE
    /\ provider = NoProvider
    /\ providerCalls = 0
    /\ failedKeywords = <<>>
    /\ llmOutput = NoOutput
    /\ rewriteResult = NoRewrite
    /\ laterIdle

\* handleMethod: what the method gives back: a value, undefined, an error
\* raised, or the end of the process
handleMethod(method, throws) ==
    CASE method = "initialize" -> "value"
      [] method = "initialized" -> "undefined"
      [] method = "tools/list" -> "value"
      [] method = "tools/call" -> IF throws THEN "throw" ELSE "value"
      [] method = "shutdown" -> "exit"
      [] OTHER -> "throw"

\* JSON.stringify of a response: members whose value is undefined are left out
stringify(for, id, body) == [for |-> for, id |-> id, body |-> body]

\* sendResult(id, result): the messages it writes; only the id null
\* suppresses the response, and a message without an id has the id undefined
sendResult(for, id, value) ==
    <<stringify(for, id, IF value = "undefined" THEN "none" ELSE "result")>>

\* sendError(id, code, message): id ?? 0
sendError(for, id) == <<stringify(for, IF id = NoId THEN <<0>> ELSE id, "error")>>

\* processMessage(line) for the line of the given shape
ProcessMessage(shape, id, method, throws) ==
    /\ pc = "rpc"
    /\ ~exited
    /\ Len(received) < MaxMessages
    /\ received' = Append(received, [shape |-> shape, id |-> id, method |-> method])
    /\ LET for == Len(received) + 1
           outcome == handleMethod(method, throws)
       IN  IF shape = "notJson"
             THEN /\ stdout' = stdout \o sendError(for, NoId)
                  /\ UNCHANGED exited
             ELSE IF shape = "badVersion"
               THEN /\ stdout' = stdout \o sendError(for, id)
                    /\ UNCHANGED exited
               ELSE /\ stdout' = stdout \o
                         (CASE outcome = "exit" -> <<>>
                            [] outcome = "throw" -> sendError(for, id)
                            [] OTHER -> sendResult(for, id, outcome))
                    /\ exited' = (outcome = "exit")
    /\ UNCHANGED rpcFrame

NextRpc ==
    \E shape \in LineShapes, id \in RequestIds, method \in Methods, throws \in BOOLEAN :
        ProcessMessage(shape, id, method, throws)

SpecRpc == InitRpc /\ [][NextRpc]_vars

\* the messages on stdout written for the i-th line
messagesFor(i) == {k \in 1..Len(stdout) : stdout[k].for = i}

\* C29: a JSON-RPC 2.0 request with an id gets exactly one message on stdout
\* with that id, a result or an error; a notification gets none
C29_OneResponsePerRequest ==
    pc = "rpc" =>
        \A i \in 1..Len(received) :
            received[i].shape = "ok" =>
                IF received[i].id # NoId
                  THEN /\ Cardinality(messagesFor(i)) = 1
                       /\ \A k \in messagesFor(i) :
                              /\ stdout[k].id = received[i].id
                              /\ stdout[k].body \in {"result", "error"}
                  ELSE messagesFor(i) = {}

-----------------------------------------------------------------------------
\* C30: a search makes at most 2 + n find calls, n the number of keywords
\* extracted from the query, and none once it has returned or raised; when
\* the query itself finds nothing and no keyword is extracted, it makes one
\* call and returns no hits with totalHits 0; totalHits of every returned
\* SearchResult is the number of its hits
C30_FindCallsBounded ==
    pc \in {"tier0", "tier1", "tier2", "llm", "done"} =>
        /\ Len(calls) <= 2 + Len(extractKeywords(query))
        /\ pc \in {"tier0", "tier1", "tier2"} =>
               /\ Len(calls) < 2 + Len(extractKeywords(query))
               /\ ~searchResult.returned /\ ~searchError
        /\ (/\ searchResult.returned
            /\ calls[1].hits = <<>>
            /\ extractKeywords(query) = <<>>) =>
               (Len(calls) = 1 /\ searchResult.hits = <<>> /\ searchResult.totalHits = 0)
        /\ searchResult.returned => searchResult.totalHits = Len(searchResult.hits)

\* a search that went through every tier: the query, the OR query and each of
\* at least two keywords were tried, and the search returned
C30_Witness ==
    /\ searchResult.returned
    /\ Len(keywords) >= 2
    /\ Len(calls) = 2 + Len(keywords)

====
